---- MODULE Spec2Model ----
(***************************************************************************)
(* Model of the Image Adjuster: the renderer's ImageAdjuster state         *)
(* (src/src/renderer/app.js), the main-process IPC handlers               *)
(* (src/src/main/index.js) and the image service                          *)
(* (src/src/services/image-service.js).                                    *)
(*                                                                         *)
(* Every async handler of the renderer is split at its awaits: a task      *)
(* record holds the handler's position (pc) and its local variables.       *)
(* Under Spec a user operation is accepted only when no other handler is   *)
(* in flight (operations run to completion, spec section 5).               *)
(***************************************************************************)
EXTENDS Integers, Sequences, FiniteSets, TLC

VARIABLES images, currentIndex, currentFolder, currentRating, ratingsCache,
          pendingTransformations, operationStatus, lastFolder, viewerActive,
          files, tmpFiles, sidecars, writes,
          tasks, last, session,
          dirs, scanned

vars == <<images, currentIndex, currentFolder, currentRating, ratingsCache,
          pendingTransformations, operationStatus, lastFolder, viewerActive,
          files, tmpFiles, sidecars, writes, tasks, last, session,
          dirs, scanned>>

\* the directory tree handed to imageService.scanFolder and what it returned
scanVars == <<dirs, scanned>>

rendererVars == <<images, currentIndex, currentFolder, currentRating,
                  ratingsCache, pendingTransformations, operationStatus,
                  lastFolder, viewerActive>>
diskVars == <<files, tmpFiles, sidecars, writes>>

----------------------------------------------------------------------------
(* Bounds *)

\* total number of codec writes (fs.rename over an original) in one run
MaxWrites == 1
\* the same in a session that goes on editing after a save
MaxRewrites == 2
\* number of handler slots (handlers that can be suspended at an await)
MaxTasks == 2

\* what the user does in one run of the program: in an "edit" session the
\* rotate and flip keys are used and the rating keys are not, in a "rate"
\* session it is the other way round; every other operation is used in both
Sessions == {"edit", "rate"}

\* the image writes one run may start; a "reedit" session is an edit session
\* that goes on after its first save
WriteBudget == IF session = "reedit" THEN MaxRewrites ELSE MaxWrites

----------------------------------------------------------------------------
(* The world: two folders on disk *)

Folders == {"f1", "f2"}
NoFolder == ""

\* directory listing of each folder, in scanFolder's result order
FolderListing(f) == IF f = "f1" THEN <<"a.png", "b.jpg", "c.jpg">> ELSE <<>>

Paths == {"a.png", "b.jpg", "c.jpg"}

\* a sidecar file: its text is a sequence of characters
NoFile == [exists |-> FALSE, text |-> <<>>]
TextFile(txt) == [exists |-> TRUE, text |-> txt]

\* app.js: currentRating = null
Null == -1

Identity == [rotation |-> 0, flipVertical |-> FALSE, flipHorizontal |-> FALSE]

EmptyCache == [p \in {} |-> 0]

\* an image file of the disk: its bytes are identified by the number of
\* times the file has been replaced (version); whole is false for a file
\* whose write stopped part-way
FreshFile == [exists |-> TRUE, whole |-> TRUE, version |-> 0]
NoImage == [exists |-> FALSE, whole |-> TRUE, version |-> 0]
\* a temporary file <imagePath>.tmp: t is the transformation whose result
\* it holds
NoTmp == [exists |-> FALSE, whole |-> TRUE, version |-> 0, t |-> Identity]

\* "no codec write": the path and transformation of a rename over an original
NoWrite == [path |-> "", t |-> Identity]

----------------------------------------------------------------------------
(* Pure helpers of the renderer *)

\* JavaScript's % keeps the sign of the dividend
JsRem(a, b) == IF a >= 0 THEN a % b ELSE -((-a) % b)

\* NormalizeRotation with a single %, which is negative for a negative sum
NormalizeRotationOneRem(r) == JsRem(r, 360)

\* ((rotation % 360) + 360) % 360
NormalizeRotation(r) == JsRem(JsRem(r, 360) + 360, 360)

hasPendingTransformations(t) ==
  t.rotation # 0 \/ t.flipVertical \/ t.flipHorizontal

\* this.images[i] for a 0-based i
ImageAt(imgs, i) == imgs[i + 1]

\* Array.prototype.splice(i, 1) for a 0-based i
Splice(imgs, i) ==
  IF i >= Len(imgs) THEN imgs
  ELSE [j \in 1..(Len(imgs) - 1) |-> IF j <= i THEN imgs[j] ELSE imgs[j + 1]]

Max(a, b) == IF a >= b THEN a ELSE b
Min(a, b) == IF a <= b THEN a ELSE b

CacheSet(c, p, r) == [x \in (DOMAIN c) \cup {p} |-> IF x = p THEN r ELSE c[x]]
CacheDelete(c, p) == [x \in (DOMAIN c) \ {p} |-> c[x]]

----------------------------------------------------------------------------
(* Tasks *)

Snapshot ==
  [images |-> images, currentIndex |-> currentIndex,
   pendingTransformations |-> pendingTransformations,
   currentRating |-> currentRating, ratingsCache |-> ratingsCache,
   files |-> files, sidecars |-> sidecars, writes |-> writes]

NoSnapshot ==
  [images |-> <<>>, currentIndex |-> 0, pendingTransformations |-> Identity,
   currentRating |-> Null, ratingsCache |-> EmptyCache,
   files |-> [p \in Paths |-> FreshFile],
   sidecars |-> [p \in Paths |-> NoFile], writes |-> 0]

IdleTask ==
  [op |-> "idle", pc |-> "idle", dir |-> 0, path |-> "", load |-> "",
   t |-> Identity, rating |-> 0, folder |-> NoFolder, imgs |-> <<>>, i |-> 0,
   res |-> FALSE, canceled |-> FALSE, fault |-> "none", saved |-> "none",
   written |-> NoWrite, errs |-> {}, pre |-> NoSnapshot]

\* no directory tree, no scan made
NoDirs == [readable |-> <<>>, entries |-> <<>>]
NoScan == [status |-> "none", images |-> <<>>, warned |-> {}]

NoLast ==
  [op |-> "none", outcome |-> "none", dir |-> 0, path |-> "", t |-> Identity,
   rating |-> 0, fault |-> "none", saved |-> "none", written |-> NoWrite,
   errs |-> {}, pre |-> NoSnapshot]

InFlight == {k \in 1..MaxTasks : tasks[k].op # "idle"}

FreeSlot == CHOOSE k \in 1..MaxTasks : tasks[k].op = "idle"
                                       /\ \A j \in 1..(k - 1) : tasks[j].op # "idle"

\* a handler may start when fewer than lim handlers are suspended
CanStart(lim) == Cardinality(InFlight) < lim

Finished(tk, outcome) ==
  [op |-> tk.op, outcome |-> outcome, dir |-> tk.dir, path |-> tk.path,
   t |-> tk.t, rating |-> tk.rating, fault |-> tk.fault, saved |-> tk.saved,
   written |-> tk.written, errs |-> tk.errs, pre |-> tk.pre]

\* the local variables of a handler that has just been entered
NewTask(op) == [IdleTask EXCEPT !.op = op, !.pc = "run", !.pre = Snapshot]

----------------------------------------------------------------------------
Init ==
  /\ images = <<>>
  /\ currentIndex = 0
  /\ currentFolder = NoFolder
  /\ currentRating = Null
  /\ ratingsCache = EmptyCache
  /\ pendingTransformations = Identity
  /\ operationStatus = "Ready"
  /\ lastFolder = NoFolder
  /\ viewerActive = FALSE
  /\ files = [p \in Paths |-> FreshFile]
  /\ tmpFiles = [p \in Paths |-> NoTmp]
  /\ sidecars = [p \in Paths |-> IF p = "b.jpg" THEN TextFile(<<"4">>) ELSE NoFile]
  /\ writes = 0
  /\ tasks = [k \in 1..MaxTasks |-> IdleTask]
  /\ last = NoLast
  /\ session \in Sessions
  /\ dirs = NoDirs
  /\ scanned = NoScan

----------------------------------------------------------------------------
(* Renderer: synchronous handlers *)

\* Rotate that also clears the flips
RotateClearsFlips(t, degrees) ==
  [rotation |-> NormalizeRotation(t.rotation + degrees),
   flipVertical |-> FALSE, flipHorizontal |-> FALSE]

\* rotateImage: what it assigns to this.pendingTransformations
Rotate(t, degrees) ==
  [t EXCEPT !.rotation = NormalizeRotation(@ + degrees)]

\* Flip that sets the flag instead of toggling it
FlipSets(t, direction) ==
  IF direction = "vertical" THEN [t EXCEPT !.flipVertical = TRUE]
  ELSE IF direction = "horizontal" THEN [t EXCEPT !.flipHorizontal = TRUE]
  ELSE t

\* flipImage: what it assigns to this.pendingTransformations
Flip(t, direction) ==
  IF direction = "vertical" THEN [t EXCEPT !.flipVertical = ~@]
  ELSE IF direction = "horizontal" THEN [t EXCEPT !.flipHorizontal = ~@]
  ELSE t

\* rotateImage(degrees), degrees is 90 or -90
RotateImage(lim, degrees) ==
  /\ CanStart(lim)
  /\ pendingTransformations' = Rotate(pendingTransformations, degrees)
  /\ last' = [NoLast EXCEPT !.op = "rotate", !.outcome = "done",
                            !.dir = degrees, !.pre = Snapshot]
  /\ UNCHANGED <<images, currentIndex, currentFolder, currentRating,
                 ratingsCache, operationStatus, lastFolder,
                 viewerActive, tasks>>
  /\ UNCHANGED diskVars

\* flipImage(direction), direction is "vertical" or "horizontal"
FlipImage(lim, direction) ==
  /\ CanStart(lim)
  /\ pendingTransformations' = Flip(pendingTransformations, direction)
  /\ last' = [NoLast EXCEPT !.op = "flip", !.outcome = "done",
                            !.path = direction, !.pre = Snapshot]
  /\ UNCHANGED <<images, currentIndex, currentFolder, currentRating,
                 ratingsCache, operationStatus, lastFolder,
                 viewerActive, tasks>>
  /\ UNCHANGED diskVars

----------------------------------------------------------------------------
(* Renderer: navigateImage, saveTransformations, loadCurrentImage *)

\* the handler returns: its slot is free again
Return(k, tk, outcome) ==
  /\ tasks' = [tasks EXCEPT ![k] = IdleTask]
  /\ last' = Finished(tk, outcome)

\* loadCurrentImage up to its await of getImageData; imgs and idx are the
\* values this.images and this.currentIndex have when it is called
LoadCurrentImage(k, tk, imgs, idx) ==
  /\ tasks' = [tasks EXCEPT ![k] =
                 [tk EXCEPT !.pc = "load_wait", !.load = ImageAt(imgs, idx),
                            !.res = FALSE]]
  /\ last' = NoLast

\* NavigateMove without resetTransformations after the move
NavigateMoveKeepsPending(k, tk) ==
  LET newIndex == currentIndex + tk.dir IN
  IF newIndex < 0 \/ newIndex >= Len(images)
  THEN /\ Return(k, [tk EXCEPT !.errs = @ \cup
                       {IF newIndex < 0 THEN "Already at the first image"
                                        ELSE "Already at the last image"}],
                 "boundary")
       /\ UNCHANGED <<images, currentIndex, currentFolder, currentRating,
                      ratingsCache, pendingTransformations, lastFolder,
                      viewerActive>>
  ELSE /\ currentIndex' = newIndex
       /\ currentRating' = Null
       /\ LoadCurrentImage(k, tk, images, newIndex)
       /\ UNCHANGED <<images, currentFolder, ratingsCache, lastFolder,
                      viewerActive,
                      pendingTransformations>>

\* NavigateMove with resetTransformations placed before the boundary check
NavigateMoveResetsFirst(k, tk) ==
  LET newIndex == currentIndex + tk.dir IN
  /\ pendingTransformations' = Identity
  /\ IF newIndex < 0 \/ newIndex >= Len(images)
     THEN /\ Return(k, [tk EXCEPT !.errs = @ \cup
                          {IF newIndex < 0 THEN "Already at the first image"
                                           ELSE "Already at the last image"}],
                    "boundary")
          /\ UNCHANGED <<images, currentIndex, currentFolder, currentRating,
                         ratingsCache, lastFolder, viewerActive>>
     ELSE /\ currentIndex' = newIndex
          /\ currentRating' = Null
          /\ LoadCurrentImage(k, tk, images, newIndex)
          /\ UNCHANGED <<images, currentFolder, ratingsCache, lastFolder,
                         viewerActive>>

\* navigateImage from "Calculate new index" to the await of loadCurrentImage
NavigateMove(k, tk) ==
  LET newIndex == currentIndex + tk.dir IN
  IF newIndex < 0 \/ newIndex >= Len(images)
  THEN /\ Return(k, [tk EXCEPT !.errs = @ \cup
                       {IF newIndex < 0 THEN "Already at the first image"
                                        ELSE "Already at the last image"}],
                 "boundary")
       /\ UNCHANGED <<images, currentIndex, currentFolder, currentRating,
                      ratingsCache, pendingTransformations, lastFolder,
                      viewerActive>>
  ELSE /\ currentIndex' = newIndex
       /\ pendingTransformations' = Identity
       /\ currentRating' = Null
       /\ LoadCurrentImage(k, tk, images, newIndex)
       /\ UNCHANGED <<images, currentFolder, ratingsCache, lastFolder,
                      viewerActive>>

\* navigateImage(direction) up to its first await (or its return)
NavigateImage(lim, direction) ==
  /\ CanStart(lim)
  /\ LET k == FreeSlot
         tk == [NewTask("navigate") EXCEPT !.dir = direction] IN
     IF Len(images) = 0
     THEN /\ Return(k, tk, "empty")
          /\ UNCHANGED rendererVars
          /\ UNCHANGED diskVars
     ELSE IF hasPendingTransformations(pendingTransformations)
     THEN \* saveTransformations up to its await of transformImage
          /\ writes < WriteBudget
          /\ writes' = writes + 1
          /\ operationStatus' = "Saving changes..."
          /\ tasks' = [tasks EXCEPT ![k] =
                         [tk EXCEPT !.pc = "tx_validate",
                                    !.path = ImageAt(images, currentIndex),
                                    !.t = pendingTransformations]]
          /\ last' = NoLast
          /\ UNCHANGED <<images, currentIndex, currentFolder, currentRating,
                         ratingsCache, pendingTransformations, lastFolder,
                         viewerActive>>
          /\ UNCHANGED <<files, tmpFiles, sidecars>>
     ELSE /\ NavigateMove(k, tk)
          /\ UNCHANGED operationStatus
          /\ UNCHANGED diskVars

\* SaveTransformationsReply that resets the pending transformations itself
SaveTransformationsReplyResets(k) ==
  /\ tasks[k].pc = "save_reply"
  /\ LET tk == [tasks[k] EXCEPT
                  !.saved = IF tasks[k].res THEN "ok" ELSE "failed",
                  !.errs = IF tasks[k].res THEN @
                           ELSE @ \cup {"Failed to save changes"}] IN
     /\ operationStatus' = "Ready"
     /\ NavigateMoveResetsFirst(k, tk)
  /\ UNCHANGED diskVars

\* saveTransformations after transformImage has answered, then the rest of
\* navigateImage
SaveTransformationsReply(k) ==
  /\ tasks[k].pc = "save_reply"
  /\ LET tk == [tasks[k] EXCEPT
                  !.saved = IF tasks[k].res THEN "ok" ELSE "failed",
                  !.errs = IF tasks[k].res THEN @
                           ELSE @ \cup {"Failed to save changes"}] IN
     /\ operationStatus' = "Ready"
     /\ NavigateMove(k, tk)
  /\ UNCHANGED diskVars

----------------------------------------------------------------------------
(* Main process: 'transform-image' -> imageService.applyTransformations *)

\* the catch block of applyTransformations: unlink the temporary file, throw;
\* the IPC handler turns the throw into { success: false }
TransformFailed(k, step) ==
  /\ tmpFiles' = [tmpFiles EXCEPT ![tasks[k].path] = NoTmp]
  /\ tasks' = [tasks EXCEPT ![k] =
                 [@ EXCEPT !.pc = "save_reply", !.res = FALSE, !.fault = step]]

\* _validateImagePath: fs.stat fails, or the path is not a file
ValidateImagePath(p, ok) == ok => files[p].exists

\* applyTransformations: await this._validateImagePath(imagePath)
TransformValidate(k) ==
  /\ tasks[k].pc = "tx_validate"
  /\ \E ok \in BOOLEAN :
       /\ ValidateImagePath(tasks[k].path, ok)
       /\ IF ok
          THEN /\ tasks' = [tasks EXCEPT ![k] = [@ EXCEPT !.pc = "tx_tofile"]]
               /\ UNCHANGED tmpFiles
          ELSE TransformFailed(k, "validate")
  /\ last' = NoLast
  /\ UNCHANGED rendererVars
  /\ UNCHANGED <<files, sidecars, writes>>

\* image.toFile(tempPath) succeeded: the temporary file holds the original
\* with the transformations applied
ToFileDone(k) ==
  /\ files[tasks[k].path].exists
  /\ tmpFiles' = [tmpFiles EXCEPT ![tasks[k].path] =
                    [exists |-> TRUE, whole |-> TRUE,
                     version |-> files[tasks[k].path].version + 1,
                     t |-> tasks[k].t]]
  /\ tasks' = [tasks EXCEPT ![k] = [@ EXCEPT !.pc = "tx_rename"]]
  /\ UNCHANGED files

\* ToFileFailed for an image.toFile(imagePath) that writes over the original
ToFileFailedInPlace(k) ==
  /\ TransformFailed(k, "toFile")
  /\ files' = [files EXCEPT ![tasks[k].path].whole = FALSE]

\* image.toFile(tempPath) threw part-way: what was written so far is in the
\* temporary file, which the catch block removes
ToFileFailed(k) ==
  /\ TransformFailed(k, "toFile")
  /\ UNCHANGED files

\* applyTransformations: sharp(imagePath) ... await image.toFile(tempPath)
TransformToFile(k) ==
  /\ tasks[k].pc = "tx_tofile"
  /\ (ToFileDone(k) \/ ToFileFailed(k))
  /\ last' = NoLast
  /\ UNCHANGED rendererVars
  /\ UNCHANGED <<sidecars, writes>>

\* fs.rename(tempPath, imagePath) succeeded
RenameDone(k) ==
  /\ tmpFiles[tasks[k].path].exists
  /\ files' = [files EXCEPT ![tasks[k].path] =
                  [exists |-> TRUE, whole |-> tmpFiles[tasks[k].path].whole,
                   version |-> tmpFiles[tasks[k].path].version]]
  /\ tmpFiles' = [tmpFiles EXCEPT ![tasks[k].path] = NoTmp]
  /\ tasks' = [tasks EXCEPT ![k] =
                 [@ EXCEPT !.pc = "save_reply", !.res = TRUE,
                           !.written = [path |-> tasks[k].path,
                                        t |-> tmpFiles[tasks[k].path].t]]]

\* fs.rename(tempPath, imagePath) threw
RenameFailed(k) ==
  /\ TransformFailed(k, "rename")
  /\ UNCHANGED files

\* applyTransformations: await fs.rename(tempPath, imagePath)
TransformRename(k) ==
  /\ tasks[k].pc = "tx_rename"
  /\ (RenameDone(k) \/ RenameFailed(k))
  /\ last' = NoLast
  /\ UNCHANGED rendererVars
  /\ UNCHANGED <<sidecars, writes>>

----------------------------------------------------------------------------
(* Main process: 'get-image-data' -> imageService.getImageData *)

\* the fields of the object the 'get-image-data' handler returns on success
GetImageDataReply == {"success", "data"}

GetImageData(k) ==
  /\ tasks[k].pc = "load_wait"
  /\ \E ok \in BOOLEAN :
       /\ ValidateImagePath(tasks[k].load, ok)
       /\ tasks' = [tasks EXCEPT ![k] = [@ EXCEPT !.pc = "load_reply", !.res = ok]]
  /\ last' = NoLast
  /\ UNCHANGED rendererVars
  /\ UNCHANGED diskVars

\* loadImageRating: the rating of the entry at the cursor, from the cache
LoadImageRating ==
  IF Len(images) = 0 THEN Null
  ELSE IF currentIndex >= Len(images) THEN Null
  ELSE IF ImageAt(images, currentIndex) \in DOMAIN ratingsCache
       THEN ratingsCache[ImageAt(images, currentIndex)]
       ELSE 0

\* what each handler does after its await of loadCurrentImage
AfterLoadOutcome(op) ==
  IF op = "delete" THEN "deleted"
  ELSE IF op = "selectFolder" THEN "loaded"
  ELSE IF op = "autoLoad" THEN "autoLoaded"
  ELSE "moved"

\* LoadCurrentImageReply that drops an entry it could not read
LoadCurrentImageReplyDropsUnreadable(k) ==
  /\ tasks[k].pc = "load_reply"
  /\ currentRating' =
       IF tasks[k].res /\ "imageData" \in GetImageDataReply
       THEN LoadImageRating
       ELSE Null
  /\ operationStatus' =
       IF tasks[k].op \in {"delete", "selectFolder"} THEN "Ready"
       ELSE operationStatus
  /\ Return(k, tasks[k], AfterLoadOutcome(tasks[k].op))
  /\ images' = IF tasks[k].res THEN images ELSE Splice(images, currentIndex)
  /\ UNCHANGED <<currentIndex, currentFolder, ratingsCache,
                 pendingTransformations, lastFolder, viewerActive>>
  /\ UNCHANGED diskVars

\* loadCurrentImage after getImageData has answered, then the rest of the
\* calling handler (updateUI, toast, operation status)
LoadCurrentImageReply(k) ==
  /\ tasks[k].pc = "load_reply"
  /\ currentRating' =
       IF tasks[k].res /\ "imageData" \in GetImageDataReply
       THEN LoadImageRating
       ELSE Null
  /\ operationStatus' =
       IF tasks[k].op \in {"delete", "selectFolder"} THEN "Ready"
       ELSE operationStatus
  /\ Return(k, tasks[k], AfterLoadOutcome(tasks[k].op))
  /\ UNCHANGED <<images, currentIndex, currentFolder, ratingsCache,
                 pendingTransformations, lastFolder, viewerActive>>
  /\ UNCHANGED diskVars

----------------------------------------------------------------------------
(* Renderer: skipImage *)

\* SkipImage that saves the pending transformations as navigateImage does
SkipImageSaves(lim) ==
  /\ CanStart(lim)
  /\ Len(images) > 0
  /\ hasPendingTransformations(pendingTransformations)
  /\ writes < WriteBudget
  /\ writes' = writes + 1
  /\ operationStatus' = "Saving changes..."
  /\ tasks' = [tasks EXCEPT ![FreeSlot] =
                 [NewTask("skip") EXCEPT !.pc = "tx_validate", !.dir = 1,
                                         !.path = ImageAt(images, currentIndex),
                                         !.t = pendingTransformations]]
  /\ last' = NoLast
  /\ UNCHANGED <<images, currentIndex, currentFolder, currentRating,
                 ratingsCache, pendingTransformations, lastFolder,
                 viewerActive>>
  /\ UNCHANGED <<files, tmpFiles, sidecars>>

\* SkipImage without resetTransformations
SkipImageKeepsPending(lim) ==
  /\ CanStart(lim)
  /\ LET k == FreeSlot
         tk == [NewTask("skip") EXCEPT !.dir = 1]
         newIndex == currentIndex + 1 IN
     IF Len(images) = 0
     THEN /\ Return(k, tk, "empty")
          /\ UNCHANGED rendererVars
     ELSE /\ IF newIndex >= Len(images)
             THEN /\ Return(k, [tk EXCEPT !.errs = {"Already at the last image"}],
                            "boundary")
                  /\ UNCHANGED <<currentIndex, currentRating>>
             ELSE /\ currentIndex' = newIndex
                  /\ currentRating' = Null
                  /\ LoadCurrentImage(k, tk, images, newIndex)
          /\ UNCHANGED <<images, currentFolder, ratingsCache, operationStatus,
                         lastFolder, viewerActive, pendingTransformations>>
  /\ UNCHANGED diskVars

\* skipImage: discard the pending transformations, then move to the next image
SkipImage(lim) ==
  /\ CanStart(lim)
  /\ LET k == FreeSlot
         tk == [NewTask("skip") EXCEPT !.dir = 1]
         newIndex == currentIndex + 1 IN
     IF Len(images) = 0
     THEN /\ Return(k, tk, "empty")
          /\ UNCHANGED rendererVars
     ELSE /\ pendingTransformations' = Identity
          /\ IF newIndex >= Len(images)
             THEN /\ Return(k, [tk EXCEPT !.errs = {"Already at the last image"}],
                            "boundary")
                  /\ UNCHANGED <<currentIndex, currentRating>>
             ELSE /\ currentIndex' = newIndex
                  /\ currentRating' = Null
                  /\ LoadCurrentImage(k, tk, images, newIndex)
          /\ UNCHANGED <<images, currentFolder, ratingsCache, operationStatus,
                         lastFolder, viewerActive>>
  /\ UNCHANGED diskVars

----------------------------------------------------------------------------
(* Renderer and main process: deleteImage *)

\* DeleteImage that asks for the confirmation before it looks at the list
DeleteImageConfirmsFirst(lim, confirmed) ==
  /\ CanStart(lim)
  /\ LET k == FreeSlot
         tk == NewTask("delete") IN
     IF ~confirmed
     THEN /\ Return(k, [tk EXCEPT !.path = IF Len(images) = 0 THEN ""
                                           ELSE ImageAt(images, currentIndex)],
                    "declined")
          /\ UNCHANGED operationStatus
     ELSE IF Len(images) = 0
     THEN /\ Return(k, tk, "empty")
          /\ UNCHANGED operationStatus
     ELSE /\ operationStatus' = "Deleting image..."
          /\ tasks' = [tasks EXCEPT ![k] =
                         [tk EXCEPT !.pc = "del_validate",
                                    !.path = ImageAt(images, currentIndex)]]
          /\ last' = NoLast
  /\ UNCHANGED <<images, currentIndex, currentFolder, currentRating,
                 ratingsCache, pendingTransformations, lastFolder,
                 viewerActive>>
  /\ UNCHANGED diskVars

\* deleteImage up to its await of electronAPI.deleteImage; confirmed is the
\* answer of the confirm() dialog
DeleteImage(lim, confirmed) ==
  /\ CanStart(lim)
  /\ LET k == FreeSlot
         tk == NewTask("delete") IN
     IF Len(images) = 0
     THEN /\ Return(k, tk, "empty")
          /\ UNCHANGED operationStatus
     ELSE IF ~confirmed
     THEN /\ Return(k, [tk EXCEPT !.path = ImageAt(images, currentIndex)],
                    "declined")
          /\ UNCHANGED operationStatus
     ELSE /\ operationStatus' = "Deleting image..."
          /\ tasks' = [tasks EXCEPT ![k] =
                         [tk EXCEPT !.pc = "del_validate",
                                    !.path = ImageAt(images, currentIndex)]]
          /\ last' = NoLast
  /\ UNCHANGED <<images, currentIndex, currentFolder, currentRating,
                 ratingsCache, pendingTransformations, lastFolder,
                 viewerActive>>
  /\ UNCHANGED diskVars

\* imageService.deleteImage: await this._validateImagePath(imagePath)
DeleteValidate(k) ==
  /\ tasks[k].pc = "del_validate"
  /\ \E ok \in BOOLEAN :
       /\ ValidateImagePath(tasks[k].path, ok)
       /\ tasks' = [tasks EXCEPT ![k] =
                      IF ok THEN [@ EXCEPT !.pc = "del_unlink"]
                      ELSE [@ EXCEPT !.pc = "del_reply", !.res = FALSE,
                                     !.fault = "validate"]]
  /\ last' = NoLast
  /\ UNCHANGED rendererVars
  /\ UNCHANGED diskVars

\* what fs.unlink(imagePath) removes from the disk
UnlinkImage(p) ==
  /\ files' = [files EXCEPT ![p] = NoImage]
  /\ UNCHANGED sidecars

\* imageService.deleteImage: await fs.unlink(imagePath); the reply of the
\* 'delete-image' handler is { success: true } unless the service threw
DeleteUnlink(k) ==
  /\ tasks[k].pc = "del_unlink"
  /\ \E ok \in BOOLEAN :
       /\ ok => files[tasks[k].path].exists
       /\ IF ok THEN UnlinkImage(tasks[k].path)
                ELSE UNCHANGED <<files, sidecars>>
       /\ tasks' = [tasks EXCEPT ![k] =
                      [@ EXCEPT !.pc = "del_reply", !.res = ok,
                                !.fault = IF ok THEN "none" ELSE "unlink"]]
  /\ last' = NoLast
  /\ UNCHANGED rendererVars
  /\ UNCHANGED <<tmpFiles, writes>>

\* DeleteSucceeded without "Adjust current index if needed"
DeleteSucceededNoClamp(k) ==
  LET imgs == Splice(images, currentIndex) IN
  /\ images' = imgs
  /\ currentRating' = Null
  /\ IF Len(imgs) = 0
     THEN /\ operationStatus' = "Ready"
          /\ viewerActive' = FALSE
          /\ Return(k, tasks[k], "deleted")
          /\ UNCHANGED <<currentIndex, pendingTransformations>>
     ELSE /\ pendingTransformations' = Identity
          /\ LoadCurrentImage(k, tasks[k], imgs, Min(currentIndex, Len(imgs) - 1))
          /\ UNCHANGED <<operationStatus, currentIndex, viewerActive>>

\* DeleteSucceeded without resetTransformations
DeleteSucceededKeepsPending(k) ==
  LET imgs == Splice(images, currentIndex)
      idx == IF currentIndex >= Len(imgs) THEN Len(imgs) - 1 ELSE currentIndex IN
  /\ images' = imgs
  /\ currentRating' = Null
  /\ IF Len(imgs) = 0
     THEN /\ operationStatus' = "Ready"
          /\ viewerActive' = FALSE
          /\ Return(k, tasks[k], "deleted")
          /\ UNCHANGED <<currentIndex, pendingTransformations>>
     ELSE /\ currentIndex' = idx
          /\ LoadCurrentImage(k, tasks[k], imgs, idx)
          /\ UNCHANGED <<operationStatus, pendingTransformations, viewerActive>>

\* deleteImage, result.success: splice, clamp the index, load the next image
DeleteSucceeded(k) ==
  LET imgs == Splice(images, currentIndex)
      idx == IF currentIndex >= Len(imgs) THEN Len(imgs) - 1 ELSE currentIndex IN
  /\ images' = imgs
  /\ currentRating' = Null
  /\ IF Len(imgs) = 0
     THEN /\ operationStatus' = "Ready"
          /\ viewerActive' = FALSE
          /\ Return(k, tasks[k], "deleted")
          /\ UNCHANGED <<currentIndex, pendingTransformations>>
     ELSE /\ currentIndex' = idx
          /\ pendingTransformations' = Identity
          /\ LoadCurrentImage(k, tasks[k], imgs, idx)
          /\ UNCHANGED <<operationStatus, viewerActive>>

\* DeleteFailed without the finally block: the status stays busy
DeleteFailedStaysBusy(k) ==
  /\ UNCHANGED operationStatus
  /\ Return(k, [tasks[k] EXCEPT !.errs = @ \cup {"Failed to delete image"}],
            "deleteFailed")
  /\ UNCHANGED <<images, currentIndex, currentRating, pendingTransformations,
                 viewerActive>>

\* DeleteFailed that removes the entry from the list all the same
DeleteFailedSplices(k) ==
  /\ operationStatus' = "Ready"
  /\ images' = Splice(images, currentIndex)
  /\ Return(k, [tasks[k] EXCEPT !.errs = @ \cup {"Failed to delete image"}],
            "deleteFailed")
  /\ UNCHANGED <<currentIndex, currentRating, pendingTransformations,
                 viewerActive>>

\* deleteImage, the catch block: nothing but a toast
DeleteFailed(k) ==
  /\ operationStatus' = "Ready"
  /\ Return(k, [tasks[k] EXCEPT !.errs = @ \cup {"Failed to delete image"}],
            "deleteFailed")
  /\ UNCHANGED <<images, currentIndex, currentRating, pendingTransformations,
                 viewerActive>>

\* deleteImage after electronAPI.deleteImage has answered
DeleteImageReply(k) ==
  /\ tasks[k].pc = "del_reply"
  /\ IF tasks[k].res THEN DeleteSucceeded(k) ELSE DeleteFailed(k)
  /\ UNCHANGED <<currentFolder, ratingsCache, lastFolder>>
  /\ UNCHANGED diskVars

----------------------------------------------------------------------------
(* Rating sidecar text *)

Whitespace == {" ", "\n", "\t"}
DigitChars == <<"0", "1", "2", "3", "4", "5", "6", "7", "8", "9">>
IsDigit(c) == \E d \in 1..10 : DigitChars[d] = c
DigitValue(c) == (CHOOSE d \in 1..10 : DigitChars[d] = c) - 1

RECURSIVE TrimLeft(_)
TrimLeft(s) ==
  IF s # <<>> /\ Head(s) \in Whitespace THEN TrimLeft(Tail(s)) ELSE s

RECURSIVE TrimRight(_)
TrimRight(s) ==
  IF s # <<>> /\ s[Len(s)] \in Whitespace
  THEN TrimRight(SubSeq(s, 1, Len(s) - 1)) ELSE s

\* String.prototype.trim
Trim(s) == TrimRight(TrimLeft(s))

\* the value of the longest prefix of digits of s, acc being the value so far
RECURSIVE DigitsValue(_, _)
DigitsValue(s, acc) ==
  IF s # <<>> /\ IsDigit(Head(s))
  THEN DigitsValue(Tail(s), 10 * acc + DigitValue(Head(s)))
  ELSE acc

\* parseInt(s, 10) || 0: NaN (no leading digits) and 0 both give 0
ParseIntOrZero(s) ==
  LET t == TrimLeft(s)
      neg == t # <<>> /\ Head(t) = "-"
      body == IF t # <<>> /\ Head(t) \in {"-", "+"} THEN Tail(t) ELSE t IN
  IF body = <<>> \/ ~IsDigit(Head(body)) THEN 0
  ELSE IF neg THEN 0 - DigitsValue(body, 0) ELSE DigitsValue(body, 0)

\* Math.max(0, Math.min(5, rating))
ClampRating(r) == Max(0, Min(5, r))

\* getRatingFromSidecar without the clamp
getRatingFromSidecarNoClamp(p) ==
  IF sidecars[p].exists
  THEN ParseIntOrZero(Trim(sidecars[p].text))
  ELSE 0

\* getRatingFromSidecar: 0 when the sidecar cannot be read
getRatingFromSidecar(p) ==
  IF sidecars[p].exists
  THEN ClampRating(ParseIntOrZero(Trim(sidecars[p].text)))
  ELSE 0

\* validRating.toString() for a rating in 0..5
RatingText(r) == <<DigitChars[r + 1]>>

----------------------------------------------------------------------------
(* Renderer and main process: setRating *)

\* ratings the keyboard and the stars can ask for (0, 3), and two that only
\* another caller of setRating could pass
RatingInputs == {-2, 0, 3, 6}

\* SetRating without the range check
SetRatingNoGuard(lim, rating) ==
  /\ CanStart(lim)
  /\ LET k == FreeSlot
         tk == [NewTask("setRating") EXCEPT !.rating = rating] IN
     IF Len(images) = 0
     THEN Return(k, tk, "empty")
     ELSE /\ tasks' = [tasks EXCEPT ![k] =
                         [tk EXCEPT !.pc = "rate_write",
                                    !.path = ImageAt(images, currentIndex)]]
          /\ last' = NoLast
  /\ UNCHANGED rendererVars
  /\ UNCHANGED diskVars

\* setRating(rating) up to its await of electronAPI.setImageRating
SetRating(lim, rating) ==
  /\ CanStart(lim)
  /\ LET k == FreeSlot
         tk == [NewTask("setRating") EXCEPT !.rating = rating] IN
     IF Len(images) = 0
     THEN Return(k, tk, "empty")
     ELSE IF rating < 0 \/ rating > 5
     THEN Return(k, tk, "rejected")
     ELSE /\ tasks' = [tasks EXCEPT ![k] =
                         [tk EXCEPT !.pc = "rate_write",
                                    !.path = ImageAt(images, currentIndex)]]
          /\ last' = NoLast
  /\ UNCHANGED rendererVars
  /\ UNCHANGED diskVars

\* SetImageRating with fs.appendFile in the place of fs.writeFile
SetImageRatingAppends(k) ==
  /\ tasks[k].pc = "rate_write"
  /\ LET validRating == ClampRating(tasks[k].rating) IN
     \E outcome \in {"written", "notOpened"} :
       /\ sidecars' =
            IF outcome = "written"
            THEN [sidecars EXCEPT ![tasks[k].path] =
                    TextFile(@.text \o RatingText(validRating))]
            ELSE sidecars
       /\ tasks' = [tasks EXCEPT ![k] =
                      [@ EXCEPT !.pc = "rate_reply", !.res = (outcome = "written"),
                                !.fault = IF outcome = "written" THEN "none"
                                          ELSE outcome]]
  /\ last' = NoLast
  /\ UNCHANGED rendererVars
  /\ UNCHANGED <<files, tmpFiles, writes>>

\* imageService.setImageRating: fs.writeFile(ratingFile, validRating.toString())
\* either writes the whole text, fails before it opened the file, or fails
\* after it truncated the file
SetImageRating(k) ==
  /\ tasks[k].pc = "rate_write"
  /\ LET validRating == ClampRating(tasks[k].rating) IN
     \E outcome \in {"written", "notOpened", "truncated"} :
       /\ sidecars' =
            IF outcome = "written"
            THEN [sidecars EXCEPT ![tasks[k].path] = TextFile(RatingText(validRating))]
            ELSE IF outcome = "truncated"
            THEN [sidecars EXCEPT ![tasks[k].path] = TextFile(<<>>)]
            ELSE sidecars
       /\ tasks' = [tasks EXCEPT ![k] =
                      [@ EXCEPT !.pc = "rate_reply", !.res = (outcome = "written"),
                                !.fault = IF outcome = "written" THEN "none"
                                          ELSE outcome]]
  /\ last' = NoLast
  /\ UNCHANGED rendererVars
  /\ UNCHANGED <<files, tmpFiles, writes>>

\* SetRatingReply that updates the rating state before looking at the answer
SetRatingReplyOptimistic(k) ==
  /\ tasks[k].pc = "rate_reply"
  /\ currentRating' = tasks[k].rating
  /\ ratingsCache' =
       IF tasks[k].rating = 0
       THEN CacheDelete(ratingsCache, tasks[k].path)
       ELSE CacheSet(ratingsCache, tasks[k].path, tasks[k].rating)
  /\ IF tasks[k].res
     THEN Return(k, tasks[k], "rated")
     ELSE Return(k, [tasks[k] EXCEPT !.errs = @ \cup {"Failed to save rating"}],
                 "ratingFailed")
  /\ UNCHANGED <<images, currentIndex, currentFolder, pendingTransformations,
                 operationStatus, lastFolder, viewerActive>>
  /\ UNCHANGED diskVars

\* setRating after electronAPI.setImageRating has answered
SetRatingReply(k) ==
  /\ tasks[k].pc = "rate_reply"
  /\ IF tasks[k].res
     THEN /\ currentRating' = tasks[k].rating
          /\ ratingsCache' =
               IF tasks[k].rating = 0
               THEN CacheDelete(ratingsCache, tasks[k].path)
               ELSE CacheSet(ratingsCache, tasks[k].path, tasks[k].rating)
          /\ Return(k, tasks[k], "rated")
     ELSE /\ Return(k, [tasks[k] EXCEPT !.errs = @ \cup {"Failed to save rating"}],
                    "ratingFailed")
          /\ UNCHANGED <<currentRating, ratingsCache>>
  /\ UNCHANGED <<images, currentIndex, currentFolder, pendingTransformations,
                 operationStatus, lastFolder, viewerActive>>
  /\ UNCHANGED diskVars

----------------------------------------------------------------------------
(* Renderer and main process: selectFolder *)

\* imageService.scanFolder: the images that exist under the folder
ScanFolder(f) == SelectSeq(FolderListing(f), LAMBDA p : files[p].exists)

\* whether fs.readdir opens the folder itself: f2 may be a folder the
\* process is not allowed to read, and _scanDirectory then only warns
RootOpens(f) == IF f = "f2" THEN BOOLEAN ELSE {TRUE}

\* selectFolder up to its await of electronAPI.selectFolder
SelectFolder(lim) ==
  /\ CanStart(lim)
  /\ operationStatus' = "Selecting folder..."
  /\ tasks' = [tasks EXCEPT ![FreeSlot] =
                 [NewTask("selectFolder") EXCEPT !.pc = "sf_dialog"]]
  /\ last' = NoLast
  /\ UNCHANGED <<images, currentIndex, currentFolder, currentRating,
                 ratingsCache, pendingTransformations, lastFolder,
                 viewerActive>>
  /\ UNCHANGED diskVars

\* the 'select-folder' handler: the dialog is cancelled, returns a folder
\* (which the handler scans), or throws
SelectFolderDialog(k) ==
  /\ tasks[k].pc = "sf_dialog"
  /\ \/ tasks' = [tasks EXCEPT ![k] =
                    [@ EXCEPT !.pc = "sf_dialog_reply", !.res = FALSE,
                              !.canceled = TRUE]]
     \/ \E f \in Folders :
          tasks' = [tasks EXCEPT ![k] =
                      [@ EXCEPT !.pc = "sf_dialog_reply", !.res = TRUE,
                                !.canceled = FALSE, !.folder = f]]
     \/ tasks' = [tasks EXCEPT ![k] =
                    [@ EXCEPT !.pc = "sf_dialog_reply", !.res = FALSE,
                              !.canceled = FALSE, !.fault = "dialog"]]
  /\ last' = NoLast
  /\ UNCHANGED rendererVars
  /\ UNCHANGED diskVars

\* selectFolder after electronAPI.selectFolder has answered
SelectFolderDialogReply(k) ==
  /\ tasks[k].pc = "sf_dialog_reply"
  /\ IF tasks[k].res /\ ~tasks[k].canceled
     THEN /\ tasks' = [tasks EXCEPT ![k] = [@ EXCEPT !.pc = "sf_scan"]]
          /\ last' = NoLast
          /\ UNCHANGED operationStatus
     ELSE IF ~tasks[k].canceled
     THEN /\ operationStatus' = "Ready"
          /\ Return(k, [tasks[k] EXCEPT !.errs = @ \cup {"Failed to select folder"}],
                    "dialogFailed")
     ELSE /\ operationStatus' = "Ready"
          /\ Return(k, tasks[k], "canceled")
  /\ UNCHANGED <<images, currentIndex, currentFolder, currentRating,
                 ratingsCache, pendingTransformations, lastFolder,
                 viewerActive>>
  /\ UNCHANGED diskVars

\* the 'scan-folder' handler: { success, folderPath, images } or
\* { success: false, error }
ScanFolderHandler(k) ==
  /\ tasks[k].pc = "sf_scan"
  /\ \E ok \in BOOLEAN, opened \in RootOpens(tasks[k].folder) :
       tasks' = [tasks EXCEPT ![k] =
                   [@ EXCEPT !.pc = IF tasks[k].op = "autoLoad"
                                    THEN "al_scan_reply"
                                    ELSE "sf_scan_reply",
                             !.res = ok,
                             !.fault = IF ~ok THEN "scan"
                                       ELSE IF ~opened THEN "rootUnreadable"
                                       ELSE "none",
                             !.imgs = IF ok /\ opened
                                      THEN ScanFolder(tasks[k].folder)
                                      ELSE <<>>]]
  /\ last' = NoLast
  /\ UNCHANGED rendererVars
  /\ UNCHANGED diskVars

\* SelectFolderScanReply without ratingsCache.clear()
SelectFolderScanReplyKeepsCache(k) ==
  /\ tasks[k].pc = "sf_scan_reply"
  /\ IF tasks[k].res
     THEN /\ images' = tasks[k].imgs
          /\ currentFolder' = tasks[k].folder
          /\ currentIndex' = 0
          /\ pendingTransformations' = Identity
          /\ currentRating' = Null
          /\ lastFolder' = tasks[k].folder
          /\ UNCHANGED ratingsCache
          /\ IF Len(tasks[k].imgs) = 0
             THEN /\ operationStatus' = "Ready"
                  /\ Return(k, [tasks[k] EXCEPT !.errs = @ \cup
                        {"No supported images found in the selected folder"}],
                        "loadedEmpty")
             ELSE /\ tasks' = [tasks EXCEPT ![k] =
                                 [@ EXCEPT !.pc = "cache_read", !.i = 1]]
                  /\ last' = NoLast
                  /\ UNCHANGED operationStatus
     ELSE /\ operationStatus' = "Ready"
          /\ Return(k, [tasks[k] EXCEPT !.errs = @ \cup {"Failed to select folder"}],
                    "scanFailed")
          /\ UNCHANGED <<images, currentIndex, currentFolder, currentRating,
                         ratingsCache, pendingTransformations, lastFolder>>
  /\ UNCHANGED viewerActive
  /\ UNCHANGED diskVars

\* selectFolder after electronAPI.scanFolder has answered, up to the first
\* await of buildRatingsCache
SelectFolderScanReply(k) ==
  /\ tasks[k].pc = "sf_scan_reply"
  /\ IF tasks[k].res
     THEN /\ images' = tasks[k].imgs
          /\ currentFolder' = tasks[k].folder
          /\ currentIndex' = 0
          /\ pendingTransformations' = Identity
          /\ currentRating' = Null
          /\ lastFolder' = tasks[k].folder
          /\ ratingsCache' = EmptyCache
          /\ IF Len(tasks[k].imgs) = 0
             THEN /\ operationStatus' = "Ready"
                  /\ Return(k, [tasks[k] EXCEPT !.errs = @ \cup
                        {"No supported images found in the selected folder"}],
                        "loadedEmpty")
             ELSE /\ tasks' = [tasks EXCEPT ![k] =
                                 [@ EXCEPT !.pc = "cache_read", !.i = 1]]
                  /\ last' = NoLast
                  /\ UNCHANGED operationStatus
     ELSE /\ operationStatus' = "Ready"
          /\ Return(k, [tasks[k] EXCEPT !.errs = @ \cup {"Failed to select folder"}],
                    "scanFailed")
          /\ UNCHANGED <<images, currentIndex, currentFolder, currentRating,
                         ratingsCache, pendingTransformations, lastFolder>>
  /\ UNCHANGED viewerActive
  /\ UNCHANGED diskVars

\* the 'get-rating-from-sidecar' handler: { success: true, rating } with the
\* rating the service read (the service catches every read error itself)
GetRatingFromSidecarHandler(k) ==
  /\ tasks[k].pc = "cache_read"
  /\ tasks' = [tasks EXCEPT ![k] =
                 [@ EXCEPT !.pc = "cache_reply", !.res = TRUE,
                           !.rating = getRatingFromSidecar(tasks[k].imgs[tasks[k].i])]]
  /\ last' = NoLast
  /\ UNCHANGED rendererVars
  /\ UNCHANGED diskVars

\* buildRatingsCache: one turn of its loop after getRatingFromSidecar has
\* answered; after the last turn selectFolder goes on to loadCurrentImage
BuildRatingsCacheReply(k) ==
  /\ tasks[k].pc = "cache_reply"
  /\ ratingsCache' =
       IF tasks[k].res
       THEN CacheSet(ratingsCache, tasks[k].imgs[tasks[k].i], tasks[k].rating)
       ELSE ratingsCache
  /\ IF tasks[k].i < Len(tasks[k].imgs)
     THEN /\ tasks' = [tasks EXCEPT ![k] =
                         [@ EXCEPT !.pc = "cache_read", !.i = @ + 1]]
          /\ last' = NoLast
          /\ UNCHANGED operationStatus
     ELSE IF Len(images) > 0 /\ currentIndex < Len(images)
     THEN /\ LoadCurrentImage(k, tasks[k], images, currentIndex)
          /\ UNCHANGED operationStatus
     ELSE /\ operationStatus' = "Ready"
          /\ Return(k, [tasks[k] EXCEPT !.errs = @ \cup
                {"No supported images found in the selected folder"}],
                "loadedEmpty")
  /\ viewerActive' =
       IF tasks[k].i >= Len(tasks[k].imgs) /\ Len(images) > 0
       THEN TRUE
       ELSE viewerActive
  /\ UNCHANGED <<images, currentIndex, currentFolder, currentRating,
                 pendingTransformations, lastFolder>>
  /\ UNCHANGED diskVars

----------------------------------------------------------------------------
(* Renderer: start-up, init and tryAutoLoadLastFolder *)

\* the window is loaded (again): a new ImageAdjuster is constructed and init
\* runs tryAutoLoadLastFolder up to its await of electronAPI.scanFolder, or
\* to its return when localStorage holds no folder; localStorage and the
\* disk are what the previous run left
TryAutoLoadLastFolder ==
  /\ images' = <<>>
  /\ currentIndex' = 0
  /\ currentFolder' = NoFolder
  /\ currentRating' = Null
  /\ ratingsCache' = EmptyCache
  /\ pendingTransformations' = Identity
  /\ operationStatus' = "Ready"
  /\ viewerActive' = FALSE
  /\ tasks' = [k \in 1..MaxTasks |->
                 IF k = 1 /\ lastFolder # NoFolder
                 THEN [IdleTask EXCEPT !.op = "autoLoad", !.pc = "sf_scan",
                                       !.folder = lastFolder,
                                       !.path = lastFolder,
                                       !.pre = [NoSnapshot EXCEPT
                                                  !.files = files,
                                                  !.sidecars = sidecars,
                                                  !.writes = writes]]
                 ELSE IdleTask]
  /\ last' = NoLast
  /\ UNCHANGED lastFolder
  /\ UNCHANGED diskVars

\* AutoLoadScanReply that leaves the stored path in place when the folder
\* cannot be loaded
AutoLoadScanReplyKeepsStored(k) ==
  /\ tasks[k].pc = "al_scan_reply"
  /\ IF tasks[k].res /\ Len(tasks[k].imgs) > 0
     THEN /\ images' = tasks[k].imgs
          /\ currentFolder' = tasks[k].folder
          /\ currentIndex' = 0
          /\ pendingTransformations' = Identity
          /\ currentRating' = Null
          /\ ratingsCache' = EmptyCache
          /\ tasks' = [tasks EXCEPT ![k] =
                         [@ EXCEPT !.pc = "cache_read", !.i = 1]]
          /\ last' = NoLast
          /\ UNCHANGED lastFolder
     ELSE /\ UNCHANGED lastFolder
          /\ Return(k, [tasks[k] EXCEPT !.errs = @ \cup
                {"Last folder is no longer accessible or contains no images"}],
                "autoLoadFailed")
          /\ UNCHANGED <<images, currentIndex, currentFolder, currentRating,
                         ratingsCache, pendingTransformations>>
  /\ UNCHANGED <<operationStatus, viewerActive>>
  /\ UNCHANGED diskVars

\* tryAutoLoadLastFolder after electronAPI.scanFolder has answered, up to the
\* first await of buildRatingsCache, or to localStorage.removeItem
AutoLoadScanReply(k) ==
  /\ tasks[k].pc = "al_scan_reply"
  /\ IF tasks[k].res /\ Len(tasks[k].imgs) > 0
     THEN /\ images' = tasks[k].imgs
          /\ currentFolder' = tasks[k].folder
          /\ currentIndex' = 0
          /\ pendingTransformations' = Identity
          /\ currentRating' = Null
          /\ ratingsCache' = EmptyCache
          /\ tasks' = [tasks EXCEPT ![k] =
                         [@ EXCEPT !.pc = "cache_read", !.i = 1]]
          /\ last' = NoLast
          /\ UNCHANGED lastFolder
     ELSE /\ lastFolder' = NoFolder
          /\ Return(k, [tasks[k] EXCEPT !.errs = @ \cup
                {"Last folder is no longer accessible or contains no images"}],
                "autoLoadFailed")
          /\ UNCHANGED <<images, currentIndex, currentFolder, currentRating,
                         ratingsCache, pendingTransformations>>
  /\ UNCHANGED <<operationStatus, viewerActive>>
  /\ UNCHANGED diskVars

----------------------------------------------------------------------------
(* The program *)

Slots == 1..MaxTasks

\* the steps of the main process and the continuations of the renderer
Step(k) ==
  \/ TransformValidate(k)
  \/ TransformToFile(k)
  \/ TransformRename(k)
  \/ SaveTransformationsReply(k)
  \/ GetImageData(k)
  \/ LoadCurrentImageReply(k)
  \/ DeleteValidate(k)
  \/ DeleteUnlink(k)
  \/ DeleteImageReply(k)
  \/ SetImageRating(k)
  \/ SetRatingReply(k)
  \/ SelectFolderDialog(k)
  \/ SelectFolderDialogReply(k)
  \/ ScanFolderHandler(k)
  \/ SelectFolderScanReply(k)
  \/ GetRatingFromSidecarHandler(k)
  \/ BuildRatingsCacheReply(k)

\* the user's operations, accepted while fewer than lim handlers are in flight
UserOp(lim) ==
  \/ \E d \in {-1, 1} : NavigateImage(lim, d)
  \/ \E d \in {90, -90} : session = "edit" /\ RotateImage(lim, d)
  \/ \E d \in {"vertical", "horizontal"} : session = "edit" /\ FlipImage(lim, d)
  \/ SkipImage(lim)
  \/ \E c \in BOOLEAN : DeleteImage(lim, c)
  \/ \E r \in RatingInputs : session = "rate" /\ SetRating(lim, r)
  \/ SelectFolder(lim)

\* operations run to completion before the next one is accepted
Next ==
  (UserOp(1) \/ \E k \in Slots : Step(k)) /\ UNCHANGED <<session, scanVars>>

Spec == Init /\ [][Next]_vars

----------------------------------------------------------------------------
(* The rating store on its own: folder loads and ratings of the first entry *)

\* what the sidecar of b.jpg may hold when the program starts
SidecarTexts ==
  { <<"4">>, <<" ", "4", "\n">>, <<"\t", "0", " ">>, <<"9">>, <<"1", "2">>,
    <<"-", "3">>, <<"+", "2">>, <<"x">>, <<"4", "x">>, <<>>, <<" ">> }

\* every rating the stars and the keys 0..5 can ask for
StarRatings == 0..5

InitRatings ==
  /\ images = <<>>
  /\ currentIndex = 0
  /\ currentFolder = NoFolder
  /\ currentRating = Null
  /\ ratingsCache = EmptyCache
  /\ pendingTransformations = Identity
  /\ operationStatus = "Ready"
  /\ lastFolder = NoFolder
  /\ viewerActive = FALSE
  /\ files = [p \in Paths |-> FreshFile]
  /\ tmpFiles = [p \in Paths |-> NoTmp]
  /\ \E f \in {NoFile} \cup {TextFile(txt) : txt \in SidecarTexts} :
       sidecars = [p \in Paths |-> IF p = "b.jpg" THEN f ELSE NoFile]
  /\ writes = 0
  /\ tasks = [k \in 1..MaxTasks |-> IdleTask]
  /\ last = NoLast
  /\ session = "rate"
  /\ dirs = NoDirs
  /\ scanned = NoScan

NextRatings ==
  /\ \/ SelectFolder(1)
     \/ \E r \in StarRatings : SetRating(1, r)
     \/ \E k \in Slots :
          \/ SelectFolderDialog(k)
          \/ SelectFolderDialogReply(k)
          \/ ScanFolderHandler(k)
          \/ SelectFolderScanReply(k)
          \/ GetRatingFromSidecarHandler(k)
          \/ BuildRatingsCacheReply(k)
          \/ GetImageData(k)
          \/ LoadCurrentImageReply(k)
          \/ SetImageRating(k)
          \/ SetRatingReply(k)
  /\ UNCHANGED <<session, scanVars>>

SpecRatings == InitRatings /\ [][NextRatings]_vars

----------------------------------------------------------------------------
(* Handlers that overlap: the listeners call the async handlers without
   awaiting them, so a key pressed while a handler is suspended at an await
   starts the next handler *)

\* the state once folder f1 has been loaded, in a session of kind s
LoadedState(s) ==
  /\ images = FolderListing("f1")
  /\ currentIndex = 0
  /\ currentFolder = "f1"
  /\ currentRating = Null
  /\ ratingsCache = [p \in Paths |-> IF p = "b.jpg" THEN 4 ELSE 0]
  /\ pendingTransformations = Identity
  /\ operationStatus = "Ready"
  /\ lastFolder = "f1"
  /\ viewerActive = TRUE
  /\ files = [p \in Paths |-> FreshFile]
  /\ tmpFiles = [p \in Paths |-> NoTmp]
  /\ sidecars = [p \in Paths |-> IF p = "b.jpg" THEN TextFile(<<"4">>) ELSE NoFile]
  /\ writes = 0
  /\ tasks = [k \in 1..MaxTasks |-> IdleTask]
  /\ last = [NoLast EXCEPT !.op = "selectFolder", !.outcome = "loaded",
                           !.pre.sidecars = sidecars]
  /\ session = s
  /\ dirs = NoDirs
  /\ scanned = NoScan

InitLoaded == LoadedState("edit")

\* navigation and deletion, accepted while a slot is free
NextOverlap ==
  /\ \/ \E d \in {-1, 1} : NavigateImage(MaxTasks, d)
     \/ DeleteImage(MaxTasks, TRUE)
     \/ \E k \in Slots :
          \/ GetImageData(k)
          \/ LoadCurrentImageReply(k)
          \/ DeleteValidate(k)
          \/ DeleteUnlink(k)
          \/ DeleteImageReply(k)
  /\ UNCHANGED <<session, scanVars>>

SpecOverlap == InitLoaded /\ [][NextOverlap]_vars

----------------------------------------------------------------------------
(* Editing on: rotations and navigation after the first save *)

InitEdits == LoadedState("reedit")

NextEdits ==
  /\ \/ \E d \in {-1, 1} : NavigateImage(1, d)
     \/ RotateImage(1, 90)
     \/ \E k \in Slots :
          \/ TransformValidate(k)
          \/ TransformToFile(k)
          \/ TransformRename(k)
          \/ SaveTransformationsReply(k)
          \/ GetImageData(k)
          \/ LoadCurrentImageReply(k)
  /\ UNCHANGED <<session, scanVars>>

SpecEdits == InitEdits /\ [][NextEdits]_vars

----------------------------------------------------------------------------
(* A rating that overlaps a navigation *)

InitOverlapRating == LoadedState("rate")

NextOverlapRating ==
  /\ \/ NavigateImage(MaxTasks, 1)
     \/ SetRating(MaxTasks, 5)
     \/ \E k \in Slots :
          \/ GetImageData(k)
          \/ LoadCurrentImageReply(k)
          \/ SetImageRating(k)
          \/ SetRatingReply(k)
  /\ UNCHANGED <<session, scanVars>>

SpecOverlapRating == InitOverlapRating /\ [][NextOverlapRating]_vars

----------------------------------------------------------------------------
(* Progress: every IPC call returns and every continuation is resumed *)

\* the main-process steps and renderer continuations of the three operations
\* that show a busy status: folder selection, saving, deletion
BusyStep(k) ==
  /\ \/ SelectFolderDialog(k)
     \/ SelectFolderDialogReply(k)
     \/ ScanFolderHandler(k)
     \/ SelectFolderScanReply(k)
     \/ GetRatingFromSidecarHandler(k)
     \/ BuildRatingsCacheReply(k)
     \/ TransformValidate(k)
     \/ TransformToFile(k)
     \/ TransformRename(k)
     \/ SaveTransformationsReply(k)
     \/ GetImageData(k)
     \/ LoadCurrentImageReply(k)
     \/ DeleteValidate(k)
     \/ DeleteUnlink(k)
     \/ DeleteImageReply(k)
  /\ UNCHANGED <<session, scanVars>>

NextBusy ==
  \/ /\ \/ SelectFolder(1)
        \/ NavigateImage(1, 1)
        \/ RotateImage(1, 90)
        \/ \E c \in BOOLEAN : DeleteImage(1, c)
     /\ UNCHANGED <<session, scanVars>>
  \/ \E k \in Slots : BusyStep(k)

\* the event loop runs every pending handler step: an invoke that is in flight
\* is answered and the awaiting continuation is resumed
SpecBusy == Init /\ [][NextBusy]_vars /\ \A k \in Slots : WF_vars(BusyStep(k))

----------------------------------------------------------------------------
(* Several runs of the program: folders are selected, images deleted, and the
   window is loaded again with what localStorage holds *)

InitStartup == Init /\ session = "edit"

NextStartup ==
  /\ \/ TryAutoLoadLastFolder
     \/ SelectFolder(1)
     \/ DeleteImage(1, TRUE)
     \/ \E k \in Slots :
          \/ ScanFolderHandler(k)
          \/ AutoLoadScanReply(k)
          \/ SelectFolderDialog(k)
          \/ SelectFolderDialogReply(k)
          \/ SelectFolderScanReply(k)
          \/ GetRatingFromSidecarHandler(k)
          \/ BuildRatingsCacheReply(k)
          \/ GetImageData(k)
          \/ LoadCurrentImageReply(k)
          \/ DeleteValidate(k)
          \/ DeleteUnlink(k)
          \/ DeleteImageReply(k)
  /\ UNCHANGED <<session, scanVars>>

SpecStartup == InitStartup /\ [][NextStartup]_vars

----------------------------------------------------------------------------
(* The image service: scanFolder over a directory tree *)

\* file names and paths are sequences of characters
Name_img1_jpg == <<"i", "m", "g", "1", ".", "j", "p", "g">>
Name_img2_jpg == <<"i", "m", "g", "2", ".", "j", "p", "g">>
Name_img10_jpg == <<"i", "m", "g", "1", "0", ".", "j", "p", "g">>
Name_IMG2_JPG == <<"I", "M", "G", "2", ".", "J", "P", "G">>
Name_a_png == <<"a", ".", "p", "n", "g">>
Name_b_Tiff == <<"b", ".", "T", "i", "f", "f">>
Name_notes_txt == <<"n", "o", "t", "e", "s", ".", "t", "x", "t">>
Name_readme == <<"r", "e", "a", "d", "m", "e">>
Name_dot_png == <<".", "p", "n", "g">>
Name_link_gif == <<"l", "i", "n", "k", ".", "g", "i", "f">>
Name_sub == <<"s", "u", "b">>
Name_deep == <<"d", "e", "e", "p">>
Name_old_png == <<"o", "l", "d", ".", "p", "n", "g">>

\* the path of the folder handed to scanFolder
RootPath == <<"/", "p">>

\* this.supportedFormats
supportedFormats ==
  {<<".", "j", "p", "g">>,
   <<".", "j", "p", "e", "g">>,
   <<".", "p", "n", "g">>,
   <<".", "g", "i", "f">>,
   <<".", "b", "m", "p">>,
   <<".", "w", "e", "b", "p">>,
   <<".", "t", "i", "f", "f">>,
   <<".", "t", "i", "f">>}

UpperChars == <<"A", "B", "C", "D", "E", "F", "G", "H", "I", "J", "K", "L", "M", "N", "O", "P", "Q", "R", "S", "T", "U", "V", "W", "X", "Y", "Z">>
LowerChars == <<"a", "b", "c", "d", "e", "f", "g", "h", "i", "j", "k", "l", "m", "n", "o", "p", "q", "r", "s", "t", "u", "v", "w", "x", "y", "z">>

\* the position of a character in a sequence of characters, 0 if absent
IndexOf(cs, c) ==
  IF \E i \in 1..Len(cs) : cs[i] = c
  THEN CHOOSE i \in 1..Len(cs) : cs[i] = c
  ELSE 0

\* String.prototype.toLowerCase
toLowerCase(str) ==
  [i \in 1..Len(str) |->
     IF IndexOf(UpperChars, str[i]) > 0
     THEN LowerChars[IndexOf(UpperChars, str[i])]
     ELSE str[i]]

\* the position of the last occurrence of a character, 0 if absent
LastIndexOf(str, c) ==
  IF \E i \in 1..Len(str) : str[i] = c
  THEN CHOOSE i \in 1..Len(str) :
         str[i] = c /\ \A j \in (i + 1)..Len(str) : str[j] # c
  ELSE 0

\* path.basename
basename(p) == SubSeq(p, LastIndexOf(p, "/") + 1, Len(p))

\* path.join(dirPath, name)
join(dirPath, name) == dirPath \o <<"/">> \o name

\* path.extname of a file name: from the last dot on, empty when there is no
\* dot or when the only dot is the first character
extname(name) ==
  IF LastIndexOf(name, ".") <= 1 THEN <<>>
  ELSE SubSeq(name, LastIndexOf(name, "."), Len(name))

\* isImageFile without the toLowerCase
isImageFileCaseSensitive(name) == extname(name) \in supportedFormats
\* this.supportedFormats.includes(path.extname(name).toLowerCase())
isImageFile(name) == toLowerCase(extname(name)) \in supportedFormats

\* the order of the characters in the collation localeCompare uses:
\* punctuation, then digits, then letters
Collation == <<".", "_", "0", "1", "2", "3", "4", "5", "6", "7", "8", "9", "a", "b", "c", "d", "e", "f", "g", "h", "i", "j", "k", "l", "m", "n", "o", "p", "q", "r", "s", "t", "u", "v", "w", "x", "y", "z">>
Rank(c) == IndexOf(Collation, c)

\* the end of the run of digits that starts at position i
RECURSIVE DigitRunEnd(_, _)
DigitRunEnd(str, i) ==
  IF i < Len(str) /\ IsDigit(str[i + 1]) THEN DigitRunEnd(str, i + 1) ELSE i

\* the number a run of digits stands for
RECURSIVE RunValue(_, _, _)
RunValue(str, i, j) ==
  IF j < i THEN 0 ELSE 10 * RunValue(str, i, j - 1) + DigitValue(str[j])

\* a.localeCompare(b, undefined, { numeric: true }) from positions i and j on:
\* runs of digits compare by their value, other characters by collation
RECURSIVE localeCompare(_, _, _, _)
localeCompare(a, b, i, j) ==
  IF i > Len(a) /\ j > Len(b) THEN 0
  ELSE IF i > Len(a) THEN -1
  ELSE IF j > Len(b) THEN 1
  ELSE IF IsDigit(a[i]) /\ IsDigit(b[j])
  THEN LET va == RunValue(a, i, DigitRunEnd(a, i))
           vb == RunValue(b, j, DigitRunEnd(b, j))
       IN  IF va < vb THEN -1
           ELSE IF va > vb THEN 1
           ELSE localeCompare(a, b, DigitRunEnd(a, i) + 1, DigitRunEnd(b, j) + 1)
  ELSE IF Rank(a[i]) < Rank(b[j]) THEN -1
  ELSE IF Rank(a[i]) > Rank(b[j]) THEN 1
  ELSE localeCompare(a, b, i + 1, j + 1)

\* the comparator of images.sort in scanFolder
compare(a, b) ==
  localeCompare(toLowerCase(basename(a)), toLowerCase(basename(b)), 1, 1)

\* Array.prototype.sort with the comparator of scanFolder; the sort is
\* stable: an element goes behind every element that does not compare greater
RECURSIVE InsertSorted(_, _, _)
InsertSorted(sorted, x, i) ==
  IF i > Len(sorted) \/ compare(sorted[i], x) > 0
  THEN SubSeq(sorted, 1, i - 1) \o <<x>> \o SubSeq(sorted, i, Len(sorted))
  ELSE InsertSorted(sorted, x, i + 1)

RECURSIVE sort(_)
sort(list) ==
  IF list = <<>> THEN <<>>
  ELSE InsertSorted(sort(SubSeq(list, 1, Len(list) - 1)), list[Len(list)], 1)

\* the directories of a tree and the entries readdir returns
DirIds == {"root", "sub", "deep", "other"}
FileEntry(n) == [name |-> n, kind |-> "file", dir |-> ""]
DirEntry(n, d) == [name |-> n, kind |-> "dir", dir |-> d]
OtherEntry(n) == [name |-> n, kind |-> "other", dir |-> ""]

\* _scanDirectory: the images collected and the directories warned about,
\* starting from acc
RECURSIVE scanDirectory(_, _, _, _)
RECURSIVE scanEntries(_, _, _, _, _)
\* _scanDirectory whose failure to read a directory is not caught
scanDirectoryThrows(tree, d, dirPath, acc) ==
  IF acc.status = "threw" \/ ~tree.readable[d]
  THEN [acc EXCEPT !.status = "threw", !.images = <<>>]
  ELSE scanEntries(tree, d, dirPath, 1, acc)
scanDirectory(tree, d, dirPath, acc) ==
  IF ~tree.readable[d]
  THEN [acc EXCEPT !.warned = @ \cup {dirPath}]
  ELSE scanEntries(tree, d, dirPath, 1, acc)

scanEntries(tree, d, dirPath, i, acc) ==
  IF i > Len(tree.entries[d]) THEN acc
  ELSE LET entry == tree.entries[d][i]
           fullPath == join(dirPath, entry.name)
       IN  scanEntries(tree, d, dirPath, i + 1,
             IF entry.kind = "dir"
             THEN scanDirectory(tree, entry.dir, fullPath, acc)
             ELSE IF entry.kind = "file" /\ isImageFile(entry.name)
             THEN [acc EXCEPT !.images = Append(@, fullPath)]
             ELSE acc)

\* scanFolder: _scanDirectory catches every error itself, so the catch block
\* of scanFolder is never entered
scanFolder(tree) ==
  LET raw == scanDirectory(tree, "root", RootPath,
                           [status |-> "ok", images |-> <<>>, warned |-> {}])
  IN  [raw EXCEPT !.images = sort(raw.images)]

\* what readdir may return for the root and for sub
RootListings ==
  {<<FileEntry(Name_img10_jpg), FileEntry(Name_img2_jpg),
     DirEntry(Name_sub, "sub"), FileEntry(Name_img1_jpg),
     FileEntry(Name_notes_txt), DirEntry(Name_old_png, "other")>>,
   <<DirEntry(Name_old_png, "other"), FileEntry(Name_IMG2_JPG),
     FileEntry(Name_img2_jpg), DirEntry(Name_sub, "sub"),
     FileEntry(Name_readme)>>,
   <<FileEntry(Name_img2_jpg), FileEntry(Name_readme),
     DirEntry(Name_sub, "sub"), FileEntry(Name_IMG2_JPG),
     DirEntry(Name_old_png, "other")>>,
   <<DirEntry(Name_sub, "sub"), DirEntry(Name_old_png, "other")>>}
SubListings ==
  {<<FileEntry(Name_img2_jpg), DirEntry(Name_deep, "deep"),
     FileEntry(Name_dot_png)>>,
   <<DirEntry(Name_deep, "deep"), FileEntry(Name_a_png)>>}
DeepListing == <<FileEntry(Name_b_Tiff), FileEntry(Name_img1_jpg)>>
OtherListing == <<OtherEntry(Name_link_gif), FileEntry(Name_img2_jpg)>>

\* the directory trees scanFolder is run on
Trees ==
  {[readable |-> r,
    entries |-> [d \in DirIds |->
                   CASE d = "root" -> rl
                     [] d = "sub" -> sl
                     [] d = "deep" -> DeepListing
                     [] OTHER -> OtherListing]] :
     r \in [DirIds -> BOOLEAN], rl \in RootListings, sl \in SubListings}

InitScan ==
  /\ images = <<>>
  /\ currentIndex = 0
  /\ currentFolder = NoFolder
  /\ currentRating = Null
  /\ ratingsCache = EmptyCache
  /\ pendingTransformations = Identity
  /\ operationStatus = "Ready"
  /\ lastFolder = NoFolder
  /\ viewerActive = FALSE
  /\ files = [p \in Paths |-> FreshFile]
  /\ tmpFiles = [p \in Paths |-> NoTmp]
  /\ sidecars = [p \in Paths |-> NoFile]
  /\ writes = 0
  /\ tasks = [k \in 1..MaxTasks |-> IdleTask]
  /\ last = NoLast
  /\ session = "edit"
  /\ dirs \in Trees
  /\ scanned = NoScan

\* a call of imageService.scanFolder on the tree
ScanFolderCall ==
  /\ scanned.status = "none"
  /\ scanned' = scanFolder(dirs)
  /\ UNCHANGED <<rendererVars, diskVars, tasks, last, session, dirs>>

NextScan == ScanFolderCall

SpecScan == InitScan /\ [][NextScan]_vars

----------------------------------------------------------------------------
(* Shorthands for the properties *)

\* the entry the cursor pointed at when the last finished handler was called
Departing == ImageAt(last.pre.images, last.pre.currentIndex)

\* the index the last finished navigate or skip asked for
Target == last.pre.currentIndex + last.dir

TargetInside == 0 <= Target /\ Target <= Len(last.pre.images) - 1

TransformPcs == {"tx_validate", "tx_tofile", "tx_rename", "save_reply"}

\* the disk image files as they were, except that p was replaced once
ReplacedOnce(old, p) == [old EXCEPT ![p].version = @ + 1]

----------------------------------------------------------------------------
(* Navigation and auto-save *)

\* C1: when navigate is called with a non-identity PendingTransform and the
\* codec write fails, the cursor does not move, PendingTransform keeps its
\* pre-call value, the file on disk is unchanged and an error is surfaced;
\* no state is reachable in which the cursor has moved after a failed save.
C1_FailedSaveStopsNavigate ==
  /\ \A k \in Slots :
       (tasks[k].op = "navigate" /\ tasks[k].saved = "failed") =>
         currentIndex = tasks[k].pre.currentIndex
  /\ (last.op = "navigate" /\ last.saved = "failed") =>
       /\ currentIndex = last.pre.currentIndex
       /\ pendingTransformations = last.pre.pendingTransformations
       /\ files = last.pre.files
       /\ "Failed to save changes" \in last.errs

\* C2: when navigate(direction) is called with a non-identity
\* PendingTransform, the target index is inside [0, length-1] and the codec
\* write succeeds, exactly that PendingTransform is written to the file of
\* the departing entry before the cursor changes, the cursor then moves by
\* exactly one in the given direction, and PendingTransform is identity
\* afterwards.
C2_NavigateCommitsThenMoves ==
  /\ \A k \in Slots :
       (tasks[k].op = "navigate" /\ tasks[k].pc \in TransformPcs) =>
         /\ currentIndex = tasks[k].pre.currentIndex
         /\ tasks[k].path = ImageAt(tasks[k].pre.images, tasks[k].pre.currentIndex)
         /\ (tasks[k].pc = "save_reply" /\ tasks[k].res) =>
              /\ tasks[k].written =
                   [path |-> tasks[k].path,
                    t |-> tasks[k].pre.pendingTransformations]
              /\ files = ReplacedOnce(tasks[k].pre.files, tasks[k].path)
  /\ (last.op = "navigate" /\ last.saved = "ok" /\ TargetInside) =>
       /\ last.outcome = "moved"
       /\ last.written = [path |-> Departing,
                          t |-> last.pre.pendingTransformations]
       /\ files = ReplacedOnce(last.pre.files, Departing)
       /\ currentIndex = last.pre.currentIndex + last.dir
       /\ pendingTransformations = Identity

C2_Witness ==
  /\ last.op = "navigate"
  /\ last.saved = "ok"
  /\ last.outcome = "moved"
  /\ hasPendingTransformations(last.pre.pendingTransformations)

\* C3: skip never issues a codec write, whatever the PendingTransform is:
\* every image file is the same before and after skip, and after a
\* successful skip the cursor is one higher and the PendingTransform of the
\* new current entry is identity.
C3_SkipNeverWrites ==
  /\ \A k \in Slots :
       tasks[k].op = "skip" =>
         /\ tasks[k].pc \notin TransformPcs
         /\ writes = tasks[k].pre.writes
         /\ files = tasks[k].pre.files
         /\ tmpFiles = [p \in Paths |-> NoTmp]
  /\ last.op = "skip" =>
       /\ writes = last.pre.writes
       /\ last.written = NoWrite
       /\ files = last.pre.files
       /\ last.outcome = "moved" =>
            /\ currentIndex = last.pre.currentIndex + 1
            /\ pendingTransformations = Identity

C3_Witness ==
  /\ last.op = "skip"
  /\ last.outcome = "moved"
  /\ hasPendingTransformations(last.pre.pendingTransformations)

\* C4: navigate(previous) at cursor 0 and navigate(next) at cursor length-1
\* are refused: after the call the cursor and PendingTransform both have
\* their pre-call values.
C4_NavigateRefusedAtBoundary ==
  (last.op = "navigate" /\ Len(last.pre.images) > 0 /\ ~TargetInside) =>
    /\ last.outcome = "boundary"
    /\ currentIndex = last.pre.currentIndex
    /\ pendingTransformations = last.pre.pendingTransformations
    /\ images = last.pre.images
    /\ \E e \in {"Already at the first image", "Already at the last image"} :
         e \in last.errs

C4_Witness ==
  /\ last.op = "navigate"
  /\ last.outcome = "boundary"
  /\ last.dir = 1
  /\ last.pre.currentIndex = Len(last.pre.images) - 1
  /\ hasPendingTransformations(last.pre.pendingTransformations)

\* C5: skip at cursor length-1 is refused and leaves both the cursor and
\* PendingTransform unchanged, so a non-identity PendingTransform is still
\* pending after the refused skip.
C5_SkipRefusedKeepsPending ==
  (last.op = "skip" /\ Len(last.pre.images) > 0 /\ ~TargetInside) =>
    /\ last.outcome = "boundary"
    /\ currentIndex = last.pre.currentIndex
    /\ pendingTransformations = last.pre.pendingTransformations

\* C6: whenever the collection is non-empty the cursor points at an
\* existing entry: 0 <= cursor <= length-1.
C6_CursorInRange ==
  Len(images) > 0 => (0 <= currentIndex /\ currentIndex <= Len(images) - 1)

C6_Witness ==
  /\ last.op = "delete"
  /\ last.outcome = "deleted"
  /\ last.pre.currentIndex = Len(last.pre.images) - 1
  /\ Len(images) > 0
  /\ currentIndex = Len(images) - 1

----------------------------------------------------------------------------
(* The codec write *)

----------------------------------------------------------------------------
(* Deletion *)

\* C8: for a collection of length n >= 2 and cursor i, a successful
\* deleteCurrent removes exactly the entry at i, keeps the other entries in
\* their order, sets the cursor to min(i, n-2) and resets PendingTransform
\* to identity.
C8_DeleteRenumbers ==
  (last.op = "delete" /\ last.outcome = "deleted"
     /\ Len(last.pre.images) >= 2) =>
    LET n == Len(last.pre.images)
        i == last.pre.currentIndex IN
    /\ images = SubSeq(last.pre.images, 1, i) \o SubSeq(last.pre.images, i + 2, n)
    /\ currentIndex = Min(i, n - 2)
    /\ pendingTransformations = Identity

C8_Witness ==
  /\ last.op = "delete"
  /\ last.outcome = "deleted"
  /\ last.pre.images = <<"a.png", "b.jpg", "c.jpg">>
  /\ last.pre.currentIndex = 1
  /\ hasPendingTransformations(last.pre.pendingTransformations)
  /\ images = <<"a.png", "c.jpg">>
  /\ currentIndex = 1

\* C9: if the filesystem remove fails, deleteCurrent reports DeleteFailed
\* and leaves the collection and the cursor exactly as they were.
C9_DeleteFailureChangesNothing ==
  (last.op = "delete" /\ last.fault # "none") =>
    /\ last.outcome = "deleteFailed"
    /\ "Failed to delete image" \in last.errs
    /\ images = last.pre.images
    /\ currentIndex = last.pre.currentIndex
    /\ files = last.pre.files

C9_Witness ==
  /\ last.op = "delete"
  /\ last.fault = "unlink"
  /\ Len(last.pre.images) >= 2

\* C10: after a successful deleteCurrent of an image, that image's sidecar
\* file has also been removed.
C10_DeleteRemovesSidecar ==
  (last.op = "delete" /\ last.outcome = "deleted") =>
    ~sidecars[last.path].exists

----------------------------------------------------------------------------
(* The pending transformations *)

\* the entry at the cursor, "" when there is none
CurrentEntry ==
  IF currentIndex >= 0 /\ currentIndex < Len(images)
  THEN ImageAt(images, currentIndex) ELSE ""

\* C11: PendingTransform is the identity in every state immediately after
\* the cursor changed value or came to point at another entry (successful
\* navigate, successful skip, deleteCurrent that leaves entries, loadFolder):
\* a transform made for one entry is never carried over to another entry.
C11_PendingResetOnMove ==
  [][(currentIndex' # currentIndex
        \/ (CurrentEntry' # CurrentEntry /\ CurrentEntry' # ""))
       => pendingTransformations' = Identity]_vars

C11_Witness ==
  /\ last.op = "delete"
  /\ last.outcome = "deleted"
  /\ hasPendingTransformations(last.pre.pendingTransformations)
  /\ last.pre.currentIndex = 2
  /\ currentIndex = 1
  /\ pendingTransformations = Identity

\* C12: after any sequence of rotate(+90) and rotate(-90) the pending
\* rotation is one of 0, 90, 180, 270: never negative, never 360 or more.
C12_RotationNormalized ==
  /\ pendingTransformations.rotation \in {0, 90, 180, 270}
  /\ \A k \in Slots : tasks[k].t.rotation \in {0, 90, 180, 270}
  /\ last.op = "rotate" =>
       pendingTransformations.rotation =
         (last.pre.pendingTransformations.rotation + last.dir + 360) % 360

C12_Witness ==
  /\ last.op = "rotate"
  /\ last.dir = -90
  /\ last.pre.pendingTransformations.rotation = 0
  /\ pendingTransformations.rotation = 270

\* C13: from any PendingTransform value, rotate(+90) applied four times,
\* rotate(+90) followed by rotate(-90), flipVertical() applied twice and
\* flipHorizontal() applied twice each return the starting value.
C13_RotateFlipCancel ==
  LET t == pendingTransformations IN
  /\ last.op = "rotate" => t = Rotate(last.pre.pendingTransformations, last.dir)
  /\ last.op = "flip" => t = Flip(last.pre.pendingTransformations, last.path)
  /\ Rotate(Rotate(Rotate(Rotate(t, 90), 90), 90), 90) = t
  /\ Rotate(Rotate(Rotate(Rotate(t, -90), -90), -90), -90) = t
  /\ Rotate(Rotate(t, 90), -90) = t
  /\ Rotate(Rotate(t, -90), 90) = t
  /\ Flip(Flip(t, "vertical"), "vertical") = t
  /\ Flip(Flip(t, "horizontal"), "horizontal") = t

C13_Witness ==
  /\ last.op = "flip"
  /\ last.path = "vertical"
  /\ last.pre.pendingTransformations.flipVertical
  /\ last.pre.pendingTransformations.rotation = 270
  /\ last.pre.pendingTransformations.flipHorizontal
  /\ ~pendingTransformations.flipVertical

\* C14: rotate, flipVertical and flipHorizontal change only PendingTransform:
\* no disk I/O, and the collection, the cursor, the rating cache and every
\* file stay as they are; rotate changes only the rotation and each flip
\* changes only its own boolean.
C14_RotateFlipFrame ==
  [][(last'.op \in {"rotate", "flip"}) =>
       /\ UNCHANGED <<images, currentIndex, currentFolder, currentRating,
                      ratingsCache, operationStatus, lastFolder, tasks>>
       /\ UNCHANGED diskVars
       /\ last'.op = "rotate" =>
            /\ pendingTransformations'.flipVertical =
                 pendingTransformations.flipVertical
            /\ pendingTransformations'.flipHorizontal =
                 pendingTransformations.flipHorizontal
       /\ last'.op = "flip" =>
            /\ pendingTransformations'.rotation = pendingTransformations.rotation
            /\ last'.path = "vertical" =>
                 pendingTransformations'.flipHorizontal =
                   pendingTransformations.flipHorizontal
            /\ last'.path = "horizontal" =>
                 pendingTransformations'.flipVertical =
                   pendingTransformations.flipVertical]_vars

C14_Witness ==
  /\ last.op = "rotate"
  /\ Len(images) > 0
  /\ last.pre.pendingTransformations.flipVertical
  /\ last.pre.pendingTransformations.flipHorizontal
  /\ pendingTransformations.flipVertical
  /\ pendingTransformations.flipHorizontal
  /\ pendingTransformations.rotation = 180

\* C15: commit with an identity PendingTransform succeeds without calling
\* the codec; with a non-identity PendingTransform it calls the codec once
\* for the entry at the cursor, and on success as on failure PendingTransform
\* keeps its value (commit itself does not reset it), a failure being
\* surfaced as an error.
C15_Commit ==
  /\ \A k \in Slots :
       (tasks[k].op = "navigate" /\ tasks[k].pc \in TransformPcs) =>
         /\ hasPendingTransformations(tasks[k].pre.pendingTransformations)
         /\ tasks[k].t = tasks[k].pre.pendingTransformations
         /\ tasks[k].path = ImageAt(tasks[k].pre.images, tasks[k].pre.currentIndex)
         /\ writes = tasks[k].pre.writes + 1
         /\ pendingTransformations = tasks[k].pre.pendingTransformations
  /\ (last.op = "navigate" /\ Len(last.pre.images) > 0) =>
       IF hasPendingTransformations(last.pre.pendingTransformations)
       THEN /\ writes = last.pre.writes + 1
            /\ last.saved \in {"ok", "failed"}
            /\ last.saved = "ok" <=> last.written # NoWrite
            /\ last.saved = "failed" <=> "Failed to save changes" \in last.errs
            /\ last.saved = "failed" => files = last.pre.files
            /\ last.outcome = "boundary" =>
                 pendingTransformations = last.pre.pendingTransformations
       ELSE /\ writes = last.pre.writes
            /\ last.saved = "none"
            /\ last.written = NoWrite
            /\ files = last.pre.files
            /\ "Failed to save changes" \notin last.errs

C15_Witness ==
  /\ last.op = "navigate"
  /\ last.outcome = "boundary"
  /\ last.saved = "failed"
  /\ hasPendingTransformations(last.pre.pendingTransformations)
  /\ pendingTransformations = last.pre.pendingTransformations

----------------------------------------------------------------------------
(* Ratings *)

\* the rating the cache gives for a path, an absent entry counting as 0
CacheGet(c, p) == IF p \in DOMAIN c THEN c[p] ELSE 0

\* C16: after a successful setRating(v) the cached and the displayed rating
\* of the entry at the cursor equal v (an absent entry counting as 0); if
\* the sidecar write fails, both keep their prior values and an error is
\* surfaced.
C16_SetRatingUpdatesOrKeeps ==
  /\ (last.op = "setRating" /\ last.fault = "none" /\ last.outcome # "empty"
        /\ last.rating \in 0..5) =>
       /\ last.outcome = "rated"
       /\ last.path = CurrentEntry
       /\ currentRating = last.rating
       /\ CacheGet(ratingsCache, CurrentEntry) = last.rating
       /\ \A p \in Paths \ {last.path} :
            CacheGet(ratingsCache, p) = CacheGet(last.pre.ratingsCache, p)
  /\ (last.op = "setRating" /\ last.fault # "none") =>
       /\ last.outcome = "ratingFailed"
       /\ currentRating = last.pre.currentRating
       /\ ratingsCache = last.pre.ratingsCache
       /\ "Failed to save rating" \in last.errs

C16_Witness ==
  /\ last.op = "setRating"
  /\ last.fault = "truncated"
  /\ last.path = "b.jpg"
  /\ last.rating = 3
  /\ CacheGet(ratingsCache, "b.jpg") = 4

\* the ratings a sidecar written by setImageRating can hold
WrittenTexts == {RatingText(r) : r \in 0..5}

\* C17: setRating(value) clamps value to [0,5]: for every integer value the
\* rating written to the sidecar and stored in the RatingCache for the entry
\* at the cursor is max(0, min(5, value)), and no rating outside 0..5 is
\* ever persisted or cached.
C17_SetRatingClamps ==
  (last.op = "setRating" /\ Len(last.pre.images) > 0 /\ last.fault = "none") =>
    LET p == ImageAt(last.pre.images, last.pre.currentIndex) IN
    /\ sidecars[p] = TextFile(RatingText(ClampRating(last.rating)))
    /\ CacheGet(ratingsCache, p) = ClampRating(last.rating)

\* C17 as amended: setRating(value) with a value outside [0,5] is ignored,
\* nothing is written and nothing is cached; for a value in 0..5 the rating
\* written to the sidecar and cached for the entry at the cursor is that
\* value; no rating outside 0..5 is ever persisted or cached.
C17_SetRatingRejectsOutOfRange ==
  /\ (last.op = "setRating" /\ Len(last.pre.images) > 0
        /\ last.rating \notin 0..5) =>
       /\ last.outcome = "rejected"
       /\ sidecars = last.pre.sidecars
       /\ ratingsCache = last.pre.ratingsCache
       /\ currentRating = last.pre.currentRating
  /\ (last.op = "setRating" /\ Len(last.pre.images) > 0
        /\ last.rating \in 0..5 /\ last.fault = "none") =>
       LET p == ImageAt(last.pre.images, last.pre.currentIndex) IN
       /\ sidecars[p] = TextFile(RatingText(last.rating))
       /\ CacheGet(ratingsCache, p) = last.rating
  /\ \A p \in DOMAIN ratingsCache : ratingsCache[p] \in 0..5
  /\ currentRating \in {Null} \cup 0..5
  /\ \A k \in Slots :
       tasks[k].pc \in {"rate_write", "rate_reply"} => tasks[k].rating \in 0..5
  /\ \A p \in Paths :
       (sidecars[p].exists /\ sidecars[p].text # <<>>) =>
         sidecars[p].text \in WrittenTexts

C17_Witness ==
  /\ last.op = "setRating"
  /\ last.rating = 6
  /\ last.outcome = "rejected"
  /\ Len(images) > 0
  /\ CacheGet(ratingsCache, CurrentEntry) = 3

\* a text that is nothing but decimal digits
IsDigits(t) == t # <<>> /\ \A i \in 1..Len(t) : IsDigit(t[i])

\* a text that starts with neither a digit nor a sign followed by a digit
NoLeadingNumber(t) ==
  \/ t = <<>>
  \/ ~IsDigit(t[1]) /\ t[1] \notin {"-", "+"}
  \/ t[1] \in {"-", "+"} /\ (Len(t) = 1 \/ ~IsDigit(t[2]))

\* the sidecar reads the rating store has answered and not yet passed on
AnsweredReads ==
  {k \in Slots : tasks[k].pc = "cache_reply"}

\* C19: readRating returns absent/0 whenever the sidecar is missing, holds
\* unparsable content, or holds a value outside 0..5; it tolerates
\* whitespace around a valid digit, never returns a value outside 0..5 and
\* never raises an error.
C19_ReadRatingZeroOutside ==
  \A k \in AnsweredReads :
    LET f == sidecars[tasks[k].imgs[tasks[k].i]]
        t == Trim(f.text)
        r == tasks[k].rating IN
    /\ tasks[k].res
    /\ r \in 0..5
    /\ ~f.exists => r = 0
    /\ (f.exists /\ NoLeadingNumber(t)) => r = 0
    /\ (f.exists /\ IsDigits(t)) =>
         r = (IF DigitsValue(t, 0) \in 0..5 THEN DigitsValue(t, 0) ELSE 0)
    /\ (f.exists /\ t # <<>> /\ t[1] = "-" /\ IsDigits(Tail(t))) => r = 0

\* C19 as amended: readRating returns 0 whenever the sidecar is missing or
\* its trimmed content does not start with a decimal number, and otherwise
\* the leading number clamped into 0..5 (5 for a number above 5, 0 for a
\* negative one); it tolerates whitespace around the number, never returns
\* a value outside 0..5 and never raises an error.
C19_ReadRatingClamps ==
  \A k \in AnsweredReads :
    LET f == sidecars[tasks[k].imgs[tasks[k].i]]
        t == Trim(f.text)
        r == tasks[k].rating IN
    /\ tasks[k].res
    /\ r \in 0..5
    /\ ~f.exists => r = 0
    /\ (f.exists /\ NoLeadingNumber(t)) => r = 0
    /\ (f.exists /\ t # <<>> /\ IsDigit(t[1])) =>
         r = (IF DigitsValue(t, 0) > 5 THEN 5 ELSE DigitsValue(t, 0))
    /\ (f.exists /\ Len(t) > 1 /\ t[1] = "+" /\ IsDigit(t[2])) =>
         r = (IF DigitsValue(Tail(t), 0) > 5 THEN 5 ELSE DigitsValue(Tail(t), 0))
    /\ (f.exists /\ Len(t) > 1 /\ t[1] = "-" /\ IsDigit(t[2])) => r = 0

C19_Witness ==
  \E k \in AnsweredReads :
    /\ tasks[k].imgs[tasks[k].i] = "b.jpg"
    /\ sidecars["b.jpg"] = TextFile(<<"9">>)
    /\ tasks[k].rating = 5

\* C18: for every image path and every v in 1..5, setRating to v followed
\* by a fresh readRating of that path (new session, empty cache) returns v;
\* for v = 0 the fresh read gives one and the same answer, 0, and the rating
\* shown after a new folder load agrees with that answer.
C18_RatingRoundTrip ==
  /\ (last.op = "setRating" /\ last.outcome = "rated") =>
       /\ sidecars[last.path] = TextFile(RatingText(last.rating))
       /\ getRatingFromSidecar(last.path) = last.rating
  /\ \A k \in AnsweredReads : \A v \in StarRatings :
       sidecars[tasks[k].imgs[tasks[k].i]] = TextFile(RatingText(v))
         => tasks[k].rating = v
  /\ (last.op = "selectFolder" /\ last.outcome = "loaded") =>
       \A v \in StarRatings :
         \A j \in 1..Len(images) :
           sidecars[images[j]] = TextFile(RatingText(v)) =>
             /\ CacheGet(ratingsCache, images[j]) = v
             /\ images[j] = CurrentEntry => currentRating \in {Null, v}

C18_Witness ==
  /\ last.op = "selectFolder"
  /\ last.outcome = "loaded"
  /\ sidecars["a.png"] = TextFile(<<"5">>)
  /\ sidecars["b.jpg"] = TextFile(<<"x">>)
  /\ CurrentEntry = "a.png"
  /\ CacheGet(ratingsCache, "a.png") = 5

\* C20: writeRating overwrites the sidecar atomically: a reader running
\* after a write that was interrupted sees either the complete old content
\* or the complete new content, never an empty or truncated file.
C20_AtomicRatingWrite ==
  \A k \in Slots :
    tasks[k].pc = "rate_reply" =>
      sidecars[tasks[k].path] \in
        { tasks[k].pre.sidecars[tasks[k].path],
          TextFile(RatingText(ClampRating(tasks[k].rating))) }

----------------------------------------------------------------------------
(* Loading a folder *)

\* the set of the entries of a list
Entries(imgs) == {imgs[j] : j \in 1..Len(imgs)}

\* C21: after a successful loadFolder the collection is exactly the scan
\* result, the cursor is 0, PendingTransform is identity, and the rating
\* cache holds no entry of the previous folder and, for every entry of the
\* new collection, the rating of its sidecar (0 when it has no readable
\* sidecar); a failure reading one sidecar does not abort the load.
C21_LoadFolder ==
  (last.op = "selectFolder" /\ last.outcome \in {"loaded", "loadedEmpty"}) =>
    /\ last.fault \notin {"dialog", "scan"}
    /\ images = ScanFolder(currentFolder)
    /\ last.outcome = "loadedEmpty" <=> images = <<>>
    /\ currentIndex = 0
    /\ pendingTransformations = Identity
    /\ DOMAIN ratingsCache = Entries(images)
    /\ \A p \in Entries(images) :
         /\ ratingsCache[p] = getRatingFromSidecar(p)
         /\ ~sidecars[p].exists => ratingsCache[p] = 0

C21_Witness ==
  /\ last.op = "selectFolder"
  /\ last.outcome = "loaded"
  /\ "b.jpg" \in DOMAIN last.pre.ratingsCache
  /\ images = <<"a.png", "c.jpg">>
  /\ DOMAIN ratingsCache = {"a.png", "c.jpg"}

\* C22: if the scan fails, or the folder picker is cancelled, loadFolder
\* leaves the collection, the cursor, PendingTransform and the rating cache
\* as they were before the call; a scan failure is surfaced as an error.
\* The scan fails when the handler reports a failure and when the folder
\* itself cannot be opened.
C22_LoadFolderFailureChangesNothing ==
  /\ (last.op = "selectFolder"
        /\ (last.fault # "none" \/ last.outcome = "canceled")) =>
       /\ images = last.pre.images
       /\ currentIndex = last.pre.currentIndex
       /\ pendingTransformations = last.pre.pendingTransformations
       /\ ratingsCache = last.pre.ratingsCache
  /\ (last.op = "selectFolder" /\ last.fault \in {"scan", "rootUnreadable"}) =>
       /\ last.outcome = "scanFailed"
       /\ "Failed to select folder" \in last.errs

----------------------------------------------------------------------------
(* The scanner *)

\* the directory that lists d, and the entry it lists d under
ParentOf(tree, d) ==
  CHOOSE pd \in DirIds :
    \E i \in 1..Len(tree.entries[pd]) :
      tree.entries[pd][i].kind = "dir" /\ tree.entries[pd][i].dir = d
EntryOf(tree, d) ==
  LET es == tree.entries[ParentOf(tree, d)]
  IN  es[CHOOSE i \in 1..Len(es) : es[i].kind = "dir" /\ es[i].dir = d]

\* the path of a directory of the tree
RECURSIVE PathOf(_, _)
PathOf(tree, d) ==
  IF d = "root" THEN RootPath
  ELSE join(PathOf(tree, ParentOf(tree, d)), EntryOf(tree, d).name)

\* the directories a scan can open: readable, and so is every directory
\* above them
RECURSIVE Opened(_, _)
Opened(tree, d) ==
  /\ tree.readable[d]
  /\ d # "root" => Opened(tree, ParentOf(tree, d))

\* the subdirectories a scan reaches and cannot open
Unopenable(tree) ==
  {d \in DirIds \ {"root"} :
     ~tree.readable[d] /\ Opened(tree, ParentOf(tree, d))}

\* the paths of the entries of kind k in the opened directories
PathsOfKind(tree, k) ==
  UNION {{join(PathOf(tree, d), tree.entries[d][i].name) :
            i \in {n \in 1..Len(tree.entries[d]) : tree.entries[d][n].kind = k}} :
         d \in {x \in DirIds : Opened(tree, x)}}

\* the supported extensions as the specification lists them
ExtensionNames ==
  {<<"j", "p", "g">>,
   <<"j", "p", "e", "g">>,
   <<"p", "n", "g">>,
   <<"g", "i", "f">>,
   <<"b", "m", "p">>,
   <<"w", "e", "b", "p">>,
   <<"t", "i", "f", "f">>,
   <<"t", "i", "f">>}

\* a name made of a non-empty stem, a dot and a supported extension in any
\* mix of cases
HasSupportedExtension(name) ==
  \E ext \in ExtensionNames :
    /\ Len(name) > Len(ext) + 1
    /\ name[Len(name) - Len(ext)] = "."
    /\ \A i \in 1..Len(ext) :
         LET c == name[Len(name) - Len(ext) + i]
         IN  \/ c = ext[i]
             \/ /\ IndexOf(UpperChars, c) > 0
                /\ IndexOf(UpperChars, c) = IndexOf(LowerChars, ext[i])

\* the regular files of the opened directories with a supported extension
SupportedImages(tree) ==
  {p \in PathsOfKind(tree, "file") : HasSupportedExtension(basename(p))}

\* C23: scan(rootPath) fails with an error whenever the root directory itself
\* cannot be opened; it does not return a result list in that case.
C23_ScanFailsOnUnreadableRoot ==
  (scanned.status # "none" /\ ~dirs.readable["root"]) =>
    scanned.status = "threw"

\* C24: if a subdirectory cannot be opened, scan skips it with a warning and
\* still returns every supported image of the root and of all readable
\* directories; the scan as a whole succeeds.
C24_UnreadableSubdirectorySkipped ==
  (scanned.status # "none" /\ dirs.readable["root"]) =>
    /\ scanned.status = "ok"
    /\ scanned.warned = {PathOf(dirs, d) : d \in Unopenable(dirs)}
    /\ SupportedImages(dirs) \subseteq Entries(scanned.images)

C24_Witness ==
  /\ scanned.status = "ok"
  /\ dirs.readable["root"] /\ ~dirs.readable["sub"] /\ dirs.readable["other"]
  /\ scanned.warned = {join(RootPath, Name_sub)}
  /\ join(join(RootPath, Name_old_png), Name_img2_jpg) \in Entries(scanned.images)
  /\ join(RootPath, Name_img10_jpg) \in Entries(scanned.images)

\* C25: scan returns a path if and only if it is a regular file under the
\* root, at any depth, whose extension compared case-insensitively is one of
\* jpg, jpeg, png, gif, bmp, webp, tiff, tif; directories, files without
\* extension and files with any other extension are never returned, and each
\* matching file is returned exactly once.
C25_ScanFilter ==
  scanned.status = "ok" =>
    /\ Entries(scanned.images) = SupportedImages(dirs)
    /\ Entries(scanned.images) \cap PathsOfKind(dirs, "dir") = {}
    /\ Entries(scanned.images) \cap PathsOfKind(dirs, "other") = {}
    /\ Cardinality(Entries(scanned.images)) = Len(scanned.images)

C25_Witness ==
  /\ scanned.status = "ok"
  /\ \A d \in DirIds : dirs.readable[d]
  /\ join(RootPath, Name_IMG2_JPG) \in Entries(scanned.images)
  /\ join(join(join(RootPath, Name_sub), Name_deep), Name_b_Tiff)
       \in Entries(scanned.images)
  /\ \E i \in 1..Len(dirs.entries["sub"]) :
       dirs.entries["sub"][i].name = Name_dot_png
  /\ Len(scanned.images) = 6

\* the position of a path in a list, 0 if absent
PositionOf(list, p) ==
  IF \E i \in 1..Len(list) : list[i] = p
  THEN CHOOSE i \in 1..Len(list) : list[i] = p
  ELSE 0

\* p comes before q in the list whenever both are in it
Before(list, p, q) ==
  (PositionOf(list, p) > 0 /\ PositionOf(list, q) > 0) =>
    PositionOf(list, p) < PositionOf(list, q)

\* C26: the scan result is ordered by filename only (the directory part is
\* ignored), case-insensitively and numeric-aware, so that
\* img1.jpg < img2.jpg < img10.jpg; the same set of files always yields the
\* same order, including for identical filenames in different subdirectories.
C26_ScanOrder ==
  scanned.status = "ok" =>
    /\ \A i, j \in 1..Len(scanned.images) :
         i < j => compare(scanned.images[i], scanned.images[j]) <= 0
    /\ Before(scanned.images, join(RootPath, Name_img1_jpg),
              join(RootPath, Name_img2_jpg))
    /\ Before(scanned.images, join(RootPath, Name_img2_jpg),
              join(RootPath, Name_img10_jpg))
    /\ \A tree \in Trees :
         SupportedImages(tree) = SupportedImages(dirs) =>
           scanFolder(tree).images = scanned.images

----------------------------------------------------------------------------
(* Loading the current image, the two states of the manager *)

\* C27: if the codec read fails during loadCurrent the cursor keeps its
\* value, the collection is unchanged and the rating shown becomes unknown;
\* after a successful load the rating shown is the rating cache's value of
\* the entry at the cursor.
C27_LoadCurrent ==
  [][\A k \in Slots :
       (tasks[k].pc = "load_reply" /\ tasks'[k].pc # "load_reply") =>
         /\ images' = images
         /\ currentIndex' = currentIndex
         /\ ~tasks[k].res => currentRating' = Null
         /\ tasks[k].res =>
              currentRating' = CacheGet(ratingsCache', CurrentEntry')]_vars

\* the operation of the handler that takes the step, "none" for a step of
\* no handler
StepOp ==
  IF \E k \in Slots : tasks'[k] # tasks[k]
  THEN LET k == CHOOSE j \in Slots : tasks'[j] # tasks[j]
       IN  IF tasks[k].op # "idle" THEN tasks[k].op ELSE tasks'[k].op
  ELSE last'.op

\* C28: the manager starts in Empty and is in Viewing exactly when the
\* collection is non-empty: a successful loadFolder with at least one image
\* moves to Viewing, deleting the last remaining entry moves to Empty, and no
\* operation other than loadFolder and deleteCurrent changes between Empty
\* and Viewing.  Viewing is the image viewer being the active screen; the
\* two are compared when no handler is in flight.
C28_EmptyViewing ==
  /\ images = <<>> /\ ~viewerActive
  /\ [][/\ InFlight' = {} => (viewerActive' <=> images' # <<>>)
        /\ viewerActive' # viewerActive => StepOp \in {"selectFolder", "delete"}
        /\ (images = <<>>) # (images' = <<>>) =>
             StepOp \in {"selectFolder", "delete"}]_vars

\* C29: operations that touch the disk run to completion before the next
\* user-initiated operation is accepted: at no time are two of navigate,
\* skip, deleteCurrent, setRating, loadFolder and commit in flight at once.
C29_OneOperationInFlight == Cardinality(InFlight) <= 1

\* C30: the collection is changed only by a successful loadFolder (replaced
\* wholesale) and a successful deleteCurrent (one element removed); navigate,
\* skip, rotate, flip, commit, setRating and loadCurrent never add, remove
\* or reorder entries, and the order of the surviving entries is stable.
C30_CollectionFrame ==
  [][images' # images =>
       \/ /\ StepOp = "selectFolder"
          /\ \E k \in Slots : /\ tasks[k].pc = "sf_scan_reply"
                              /\ tasks[k].res
                              /\ images' = tasks[k].imgs
       \/ /\ StepOp = "delete"
          /\ \E k \in Slots : tasks[k].pc = "del_reply" /\ tasks[k].res
          /\ \E i \in 1..Len(images) :
               images' = SubSeq(images, 1, i - 1) \o
                         SubSeq(images, i + 1, Len(images))]_vars

\* a successful delete of the middle entry has just left the other two in
\* their order
C30_Witness ==
  /\ last.op = "delete"
  /\ last.outcome = "deleted"
  /\ last.pre.images = <<"a.png", "b.jpg", "c.jpg">>
  /\ images = <<"a.png", "c.jpg">>

----------------------------------------------------------------------------
(* Overlapping handlers *)

\* the handlers of deleteImage that are in flight
DeletesInFlight == {k \in Slots : tasks[k].op = "delete"}

\* C31: when a deleteCurrent is in flight and a navigate completes before
\* it, the entry removed from the collection is still the entry whose file
\* was deleted: once no deletion is in flight, the collection keeps no path
\* whose file this program deleted and has dropped no path whose file still
\* exists.
C31_DeleteRemovesDeletedEntry ==
  (DeletesInFlight = {} /\ currentFolder = "f1") =>
    Entries(images) = {p \in Entries(FolderListing("f1")) : files[p].exists}

\* C32: a pending edit is written to disk at most once: with no rotate or
\* flip call in between, no navigate call (a call refused at a boundary
\* included) applies the same PendingTransform to the same file a second
\* time.  No navigate call starts a save of the transformation that the
\* navigate call finished just before it has written to the same file.
C32_EditWrittenOnce ==
  [][~(/\ last.op = "navigate"
       /\ last.saved = "ok"
       /\ last.path = CurrentEntry
       /\ last.t = pendingTransformations
       /\ \E k \in Slots : /\ tasks[k].op = "idle"
                           /\ tasks'[k].op = "navigate"
                           /\ tasks'[k].pc = "tx_validate"
                           /\ tasks'[k].path = last.path
                           /\ tasks'[k].t = last.t)]_vars

\* C33: whenever the displayed rating is not unknown, it equals the rating
\* cache's value (0 when there is no entry) of the entry at the cursor; this
\* also holds when a setRating is still in flight while the cursor moves to
\* another entry.
C33_DisplayedRatingIsCached ==
  currentRating # Null => currentRating = CacheGet(ratingsCache, CurrentEntry)

----------------------------------------------------------------------------
(* The rating cache and the empty collection *)

\* C34: every key of the rating cache is a path of the current collection,
\* after any sequence of loadFolder, setRating and deleteCurrent: a deleted
\* image leaves no cache entry behind and no entry of a previous folder
\* survives a new load.
C34_CacheKeysInCollection == DOMAIN ratingsCache \subseteq Entries(images)

\* C35: in the Empty state PendingTransform is the identity: rotate and flip
\* have no effect when there is no current entry, and deleting the last
\* entry resets PendingTransform.
C35_EmptyHasNoPendingEdit ==
  images = <<>> => pendingTransformations = Identity

\* the operations that need a current entry
EntryOps == {"navigate", "skip", "delete", "setRating"}

\* C36: in the Empty state navigate, skip, deleteCurrent and setRating are
\* no-ops: they issue no IPC or disk call, ask for no confirmation, and
\* leave the collection, the cursor, PendingTransform and the rating cache
\* unchanged.
C36_EmptyNoOps ==
  [][(images = <<>> /\ InFlight = {} /\ StepOp \in EntryOps) =>
       /\ InFlight' = {}
       /\ last'.op \in EntryOps
       /\ last'.outcome = "empty"
       /\ UNCHANGED <<images, currentIndex, pendingTransformations,
                      ratingsCache, currentRating, operationStatus>>
       /\ UNCHANGED diskVars]_vars

\* skip has just been called on a collection emptied by deletions
C36_Witness ==
  /\ last.op = "skip"
  /\ last.outcome = "empty"
  /\ last.pre.images = <<>>
  /\ currentFolder = "f1"
  /\ ~files["a.png"].exists

\* C37: deleteCurrent and loadFolder never write pending edits to disk:
\* called with a non-identity PendingTransform they issue no codec write; on
\* success the edit is discarded (PendingTransform reset), and when
\* deleteCurrent fails or its confirmation is declined PendingTransform is
\* left as it was.
C37_DeleteAndLoadDiscardEdits ==
  (last.op \in {"delete", "selectFolder"}) =>
    /\ writes = last.pre.writes
    /\ \A p \in Paths :
         files[p].exists => files[p] = last.pre.files[p]
    /\ last.outcome \in {"deleted", "loaded", "loadedEmpty"} =>
         pendingTransformations = Identity
    /\ last.outcome \in {"deleteFailed", "declined"} =>
         pendingTransformations = last.pre.pendingTransformations

\* C38: whenever the operation status shows a busy value, it is set back to
\* 'Ready' later on, whether the operation succeeds or fails, as long as every
\* IPC call returns.
C38_BusyLeadsToReady ==
  (operationStatus # "Ready") ~> (operationStatus = "Ready")

\* a deletion whose unlink failed has gone through 'Deleting image...' and
\* is back at 'Ready'
C38_Witness ==
  /\ last.op = "delete"
  /\ last.outcome = "deleteFailed"
  /\ operationStatus = "Ready"
  /\ InFlight = {}

====
